---- MODULE Spec2Model ----
(***************************************************************************)
(* A state-machine model of capable-core's deterministic control code:     *)
(*   - DockerSandbox.__init__ / DockerSandbox.execute  (sandbox_tools.py)  *)
(*   - monitor_ci_for_pr, CIMonitor.monitor_pr          (ci_tools.py)      *)
(*   - wait_for_ci_completion                           (github_tools.py)  *)
(*   - dev/ci/qa_loop_termination                       (squads.py)        *)
(*   - the Issue Worker protocol of ISSUE_WORKER_PROMPT and the Tech Lead   *)
(*     protocol of PARALLEL_TECH_LEAD_PROMPT            (parallel_squads)  *)
(*   - ParallelOrchestrator                             (parallel_squads)  *)
(*   - run_mutation_tests, run_mutation_tests_on_branch (sandbox_tools.py) *)
(*   - create_branch_with_files, create_branch,                            *)
(*     push_files_to_branch                             (github_tools.py)  *)
(*   - create_pr                                        (github_tools.py)  *)
(*   - get_ci_status                                    (github_tools.py)  *)
(*   - the sandbox tool wrappers: the command chain each builds and the    *)
(*     shell's run of it                                 (sandbox_tools.py) *)
(*   - the branch wrappers' cleaning of GITHUB_TOKEN from the output they   *)
(*     return                                            (sandbox_tools.py) *)
(*   - the parsing of test counts and coverage and the coverage gates of  *)
(*     the reports              (sandbox_tools.py, agents/qa_architect.py) *)
(*   - DockerSandbox._parse_test_output: the patterns of the test         *)
(*     frameworks and what they match                    (sandbox_tools.py) *)
(*   - check_all_quality_gates                       (agents/qa_architect.py) *)
(*   - status markers in agent output   (flows/nightwatch, agents/*.py)     *)
(*   - the command line: main and run_nightwatch                  (run.py) *)
(*   - GitHubClient, the singleton and its repository cache                *)
(*                                                 (tools/github_tools.py) *)
(* Each subsystem has its own variables and its own specification; the     *)
(* actions of one subsystem leave the variables of the others unchanged.   *)
(***************************************************************************)
EXTENDS Integers, Sequences, FiniteSets, TLC

VARIABLES
    \* ---- DockerSandbox ----
    sb_pc,              \* position inside __init__ / execute
    docker_available,   \* self._docker_available
    sb_timeout,         \* self.timeout
    container,          \* the local `container` of execute: TRUE once containers.run returned
    backend,            \* what the Docker backend holds for this call's container
    code_files,         \* TRUE iff the code_files argument is non-empty
    cmd_duration,       \* how long the command runs inside the container
    sb_elapsed,         \* wall-clock time spent inside execute so far
    sb_result,          \* the TestResult being returned
    \* ---- CI polling loops ----
    ci_fn,              \* which polling function this call runs
    ci_pc,              \* "idle", "polling", "returned" or "raised"
    ci_timeout,         \* timeout_seconds / self.timeout
    ci_interval,        \* poll_interval
    ci_now,             \* time.time() - start_time
    ci_elapsed,         \* the local `elapsed` of monitor_ci_for_pr
    ci_status,          \* the local `status` after the latest query
    check_count,        \* the local `check_count` of monitor_ci_for_pr
    polled,             \* what get_ci_status did on each query of this call, in order
    logs_fetched,       \* number of get_ci_failure_logs calls of this call
    ci_result,          \* what the call returned
    \* ---- self-correction loops (squads.py) ----
    state,              \* the state dict the termination conditions read
    \* ---- Issue Workers (parallel_squads.py) ----
    tl_pc,              \* the Parallel Tech Lead: "assigning", "dispatched", "waiting", "reviewing"
    issue_for_worker,   \* state['issue_for_worker_<n>']: an issue number, 0 when missing
    wk_pc,              \* each worker's phase
    wk_attempts,        \* each worker's delegations to its Developer so far
    wk_dev_results,     \* what its Developer returned, in order
    wk_outcome,         \* each worker's reported STATUS and ATTEMPTS
    wk_issue,           \* the issue each worker is acting on, 0 when none
    wk_qa_calls,        \* each worker's delegations to its QA so far
    state_reads,        \* the session-state keys each worker has looked up
    state_writes,       \* who has written which session-state key
    tl_failures,        \* the Tech Lead's "Failed" count of the final report
    \* ---- ParallelOrchestrator (parallel_squads.py) ----
    po_pc,              \* "new", "ready" (constructed), "gathering", "returned"
    max_workers,        \* self.max_workers
    semaphore,          \* the value of self.semaphore
    active_workers,     \* self.active_workers: worker_id -> index of its task
    po_results,         \* self.results
    issues,             \* the issue numbers of the `issues` argument, in order
    task_status,        \* tasks[i].status
    status_log,         \* every status tasks[i] has had, in order
    task_pc,            \* where the coroutine process_issue(tasks[i]) stands
    task_return,        \* what process_issue(tasks[i]) is about to return
    loop_current,       \* the task the event loop is running, 0 between tasks
    completion_order,   \* the tasks in the order they finished
    gathered,           \* the outcome asyncio.gather holds for each awaitable
    final_results,      \* what process_issues returned
    \* ---- mutation testing (sandbox_tools.py) ----
    mt_fn,              \* run_mutation_tests or run_mutation_tests_on_branch
    mt_pc,              \* "idle", "baseline", "mutating", "returned"
    mt_executed,        \* the commands sandbox.execute was called with, in order
    mt_baseline,        \* the TestResult of the baseline run
    mt_mutation,        \* the TestResult of the mutation run
    mt_parsed,          \* what was parsed out of the mutation output
    mt_report,          \* the report returned
    \* ---- GitHub gateway: branches and file pushes (github_tools.py) ----
    gh_fn,              \* create_branch_with_files, create_branch or push_files_to_branch
    gh_pc,              \* "idle", "get_branch", "create_git_ref", "pushing", "returned", "raised"
    remote_branch,      \* TRUE iff refs/heads/<branch_name> exists on the remote
    remote_tree,        \* what each path is on that branch: "absent", "file" or "dir"
    branch_preexisting, \* TRUE iff the branch existed when the call began
    file_changes,       \* the paths of the file_changes argument, in dict order
    gh_index,           \* position of the push loop in file_changes
    gh_probes,          \* what get_contents did for each path probed so far
    gh_calls,           \* the update_file / create_file calls issued
    files_created,      \* the local list files_created
    files_updated,      \* the local list files_updated
    branch_status,      \* the local branch_status
    gh_result,          \* what the call returned
    \* ---- GitHub gateway: pull requests (github_tools.py) ----
    pr_pc,              \* "idle", "get_branch", "create_pull", "get_pulls", "returned"
    pr_calls,           \* number of create_pr calls begun
    pr_branches,        \* the branches the remote repository has
    pull_requests,      \* the open pull requests of the remote, by number: [head, base]
    pr_head,            \* the branch_name argument
    pr_base,            \* the base_branch argument
    pr_pulls_before,    \* how many pull requests the remote had when the call began
    pr_api,             \* the API requests of this call and what each did, in order
    pr_result,          \* what the call returned
    \* ---- get_ci_status (github_tools.py) ----
    cs_pc,              \* "idle", "get_workflow_runs", "iterating", "combined", "returned", "raised"
    workflow_runs,      \* the workflow runs the remote has for the commit: [status, conclusion]
    commit_statuses,    \* the combined status of the commit: [total_count, state]
    cs_index,           \* position of `for run in runs`
    all_completed,      \* the local all_completed
    any_failed,         \* the local any_failed
    any_cancelled,      \* the local any_cancelled
    cs_requests,        \* the requests of this call and what each did, in order
    cs_result,          \* the status string returned, "none" before
    \* ---- sandbox tool wrappers: command chains (sandbox_tools.py) ----
    wr_fn,              \* the wrapper called
    wr_pc,              \* "idle", "built" (full_command is ready), "returned"
    wr_docker,          \* sandbox._docker_available of the wrapper's DockerSandbox
    wr_setup,           \* the setup_commands argument, in order
    wr_commands,        \* the primary command, or the commands list of run_command_on_branch
    wr_chain,           \* full_command: commands and the operators between them
    wr_containers,      \* how many times client.containers.run was invoked
    wr_trace,           \* the commands the shell ran in the container, with their exit codes
    wr_result,          \* the TestResult of sandbox.execute
    wr_report,          \* what the wrapper returned: "none", "docker_not_available", its status line or "report"
    \* ---- branch wrappers: the text returned (sandbox_tools.py) ----
    rd_fn,              \* the branch wrapper called
    rd_pc,              \* "idle", "baseline", "execute", "returned"
    github_token,       \* os.getenv("GITHUB_TOKEN", ""), a string of characters
    rd_result,          \* the TestResult of the latest sandbox.execute: stdout and stderr are texts
    rd_path,            \* the return statement taken
    rd_returned,        \* the text returned to the caller
    \* ---- test and coverage reports (sandbox_tools.py, qa_architect.py) ----
    rp_fn,              \* the function called
    rp_pc,              \* "idle", "executed", "returned"
    rp_stdout,          \* what the command printed, a sequence of lines
    min_coverage,       \* the threshold: min_coverage, or threshold of check_coverage_gate
    rp_result,          \* the TestResult of sandbox.execute, with the parsed counts
    rp_coverage,        \* the function's own variable coverage: None or a percentage
    rp_report,          \* what the returned text states
    \* ---- DockerSandbox._parse_test_output (sandbox_tools.py) ----
    ps_pc,              \* "idle", "printed", "parsed"
    ps_lines,           \* what the command reported: a sequence of summaries
    ps_combined,        \* the text stdout + "\n" + stderr, a sequence of tokens
    ps_parsed,          \* the counts and the coverage of the TestResult
    \* ---- check_all_quality_gates (agents/qa_architect.py) ----
    qg_pc,              \* "idle", "gates", "returned"
    qg_args,            \* coverage, mutation_score, tests_passed and the two thresholds
    gates,              \* the dict gates: a sequence of items in insertion order
    \* ---- status markers in the text an agent returns ----
    mk_pc,              \* "idle", "returned"
    mk_fn,              \* "_parse_result", "on_qa_complete", "on_developer_complete"
    mk_text,            \* result: the agent's output, a sequence of words and line breaks
    mk_out,             \* the WorkflowResult returned, or the keys the callback set in context
    \* ---- the command line (run.py) ----
    cli_pc,             \* "start", "parsed", "validated", "ran", "exited"
    cli_args,           \* repo given or not, issue, dry_run, verbose
    cli_errors,         \* errors: what validate_environment returned
    cli_result,         \* result: the dict run_nightwatch returned
    cli_exit,           \* the exit code of the process, None while it runs
    agent_runs,         \* calls of root_agent.run
    \* ---- GitHubClient: the singleton and its cache (tools/github_tools.py) ----
    gc_instance,        \* GitHubClient._instance: None or the number of an object
    gc_objects,         \* the GitHubClient objects made, with the attributes set on each
    gc_pc,              \* per caller, its position in GitHubClient() and get_repo
    gc_self,            \* per caller, the object GitHubClient() gave it, or None
    gc_name,            \* per caller, the repo_name it passed to get_repo
    gc_got,             \* per caller, the repository handle get_repo returned, or None
    gc_raised,          \* per caller, the exception that ended its call, or "none"
    gc_clients,         \* Github(...) connections made
    gc_handles          \* repository handles client.get_repo made

sbVars == <<sb_pc, docker_available, sb_timeout, container, backend,
            code_files, cmd_duration, sb_elapsed, sb_result>>

ciVars == <<ci_fn, ci_pc, ci_timeout, ci_interval, ci_now, ci_elapsed, ci_status,
            check_count, polled, logs_fetched, ci_result>>

loopVars == <<state>>

wkVars == <<tl_pc, issue_for_worker, wk_pc, wk_attempts, wk_dev_results, wk_outcome,
            wk_issue, wk_qa_calls, state_reads, state_writes, tl_failures>>

poVars == <<po_pc, max_workers, semaphore, active_workers, po_results, issues, task_status,
            status_log, task_pc, task_return, loop_current, completion_order, gathered,
            final_results>>

mtVars == <<mt_fn, mt_pc, mt_executed, mt_baseline, mt_mutation, mt_parsed, mt_report>>

ghVars == <<gh_fn, gh_pc, remote_branch, remote_tree, branch_preexisting, file_changes,
            gh_index, gh_probes, gh_calls, files_created, files_updated, branch_status,
            gh_result>>

prVars == <<pr_pc, pr_calls, pr_branches, pull_requests, pr_head, pr_base,
            pr_pulls_before, pr_api, pr_result>>

csVars == <<cs_pc, workflow_runs, commit_statuses, cs_index, all_completed,
            any_failed, any_cancelled, cs_requests, cs_result>>

wrVars == <<wr_fn, wr_pc, wr_docker, wr_setup, wr_commands, wr_chain,
            wr_containers, wr_trace, wr_result, wr_report>>

rdVars == <<rd_fn, rd_pc, github_token, rd_result, rd_path, rd_returned>>

rpVars == <<rp_fn, rp_pc, rp_stdout, min_coverage, rp_result, rp_coverage,
            rp_report>>

psVars == <<ps_pc, ps_lines, ps_combined, ps_parsed>>

qgVars == <<qg_pc, qg_args, gates>>

mkVars == <<mk_pc, mk_fn, mk_text, mk_out>>

cliVars == <<cli_pc, cli_args, cli_errors, cli_result, cli_exit, agent_runs>>

gcVars == <<gc_instance, gc_objects, gc_pc, gc_self, gc_name, gc_got, gc_raised,
            gc_clients, gc_handles>>

vars == <<sbVars, ciVars, loopVars, wkVars, poVars, mtVars, ghVars, prVars, csVars, wrVars, rdVars, rpVars, psVars, qgVars, mkVars, cliVars, gcVars>>

\* what the actions of one subsystem leave unchanged
outsideSandbox == <<ciVars, loopVars, wkVars, poVars, mtVars, ghVars, prVars, csVars, wrVars, rdVars, rpVars, psVars, qgVars, mkVars, cliVars, gcVars>>
outsideCi == <<sbVars, loopVars, wkVars, poVars, mtVars, ghVars, prVars, csVars, wrVars, rdVars, rpVars, psVars, qgVars, mkVars, cliVars, gcVars>>
outsideLoops == <<sbVars, ciVars, wkVars, poVars, mtVars, ghVars, prVars, csVars, wrVars, rdVars, rpVars, psVars, qgVars, mkVars, cliVars, gcVars>>
outsideWorkers == <<sbVars, ciVars, loopVars, poVars, mtVars, ghVars, prVars, csVars, wrVars, rdVars, rpVars, psVars, qgVars, mkVars, cliVars, gcVars>>
outsideOrchestrator == <<sbVars, ciVars, loopVars, wkVars, mtVars, ghVars, prVars, csVars, wrVars, rdVars, rpVars, psVars, qgVars, mkVars, cliVars, gcVars>>
outsideMutation == <<sbVars, ciVars, loopVars, wkVars, poVars, ghVars, prVars, csVars, wrVars, rdVars, rpVars, psVars, qgVars, mkVars, cliVars, gcVars>>
outsideGateway == <<sbVars, ciVars, loopVars, wkVars, poVars, mtVars, prVars, csVars, wrVars, rdVars, rpVars, psVars, qgVars, mkVars, cliVars, gcVars>>
outsidePulls == <<sbVars, ciVars, loopVars, wkVars, poVars, mtVars, ghVars, csVars, wrVars, rdVars, rpVars, psVars, qgVars, mkVars, cliVars, gcVars>>
outsideCiStatus == <<sbVars, ciVars, loopVars, wkVars, poVars, mtVars, ghVars, prVars, wrVars, rdVars, rpVars, psVars, qgVars, mkVars, cliVars, gcVars>>
outsideWrappers == <<sbVars, ciVars, loopVars, wkVars, poVars, mtVars, ghVars, prVars, csVars, rdVars, rpVars, psVars, qgVars, mkVars, cliVars, gcVars>>
outsideRedaction == <<sbVars, ciVars, loopVars, wkVars, poVars, mtVars, ghVars, prVars, csVars, wrVars, rpVars, psVars, qgVars, mkVars, cliVars, gcVars>>
outsideReports == <<sbVars, ciVars, loopVars, wkVars, poVars, mtVars, ghVars, prVars, csVars, wrVars, rdVars, psVars, qgVars, mkVars, cliVars, gcVars>>
outsideParser == <<sbVars, ciVars, loopVars, wkVars, poVars, mtVars, ghVars, prVars, csVars, wrVars, rdVars, rpVars, qgVars, mkVars, cliVars, gcVars>>
outsideGates == <<sbVars, ciVars, loopVars, wkVars, poVars, mtVars, ghVars, prVars, csVars, wrVars, rdVars, rpVars, psVars, mkVars, cliVars, gcVars>>
outsideMarkers == <<sbVars, ciVars, loopVars, wkVars, poVars, mtVars, ghVars, prVars, csVars, wrVars, rdVars, rpVars, psVars, qgVars, cliVars, gcVars>>
outsideCli == <<sbVars, ciVars, loopVars, wkVars, poVars, mtVars, ghVars, prVars, csVars, wrVars, rdVars, rpVars, psVars, qgVars, mkVars, gcVars>>
outsideClient == <<sbVars, ciVars, loopVars, wkVars, poVars, mtVars, ghVars, prVars, csVars, wrVars, rdVars, rpVars, psVars, qgVars, mkVars, cliVars>>

(***************************************************************************)
(* Bounds of the model.                                                    *)
(***************************************************************************)
MaxSandboxTimeout == 2
MaxCmdDuration == 3
MaxCiTimeout == 3
MaxPollInterval == 2
MaxQueryDuration == 1
MaxLoopIterations == 5
NumWorkers == 2
MaxWorkersLimit == 2
MaxIssues == 3
MaxIssueNumber == 2
MaxMutants == 2
MaxPaths == 2
MaxBranches == 2
MaxPrCalls == 3
MaxRuns == 2
MaxStatuses == 1
MaxSetupCommands == 2
MaxDebugCommands == 2
MaxTokenLen == 2
MaxOutputLen == 3
MaxStderrLen == 2
MaxCount == 1
MaxCoverage == 2
MaxOutputLines == 2

(***************************************************************************)
(* DockerSandbox (sandbox_tools.py)                                        *)
(***************************************************************************)
\* class ExecutionStatus
ExecutionStatus == {"success", "failure", "timeout", "error"}

\* exit codes a command can end with (0, ordinary failures, 137 = killed)
ExitCodes == {0, 1, 2, 137}

\* exceptions the Docker SDK can raise inside the try block
DockerExceptions == {"ContainerError", "Exception"}

NoResult == [status |-> "none", exit_code |-> 0, origin |-> "none"]

\* execute, lines 175-185: the early return when Docker is not available
UnavailableResult == [status |-> "error", exit_code |-> -1, origin |-> "docker_unavailable"]

\* execute, lines 231-247: the two except clauses
ErrorResult(exc) ==
    [status |-> "error", exit_code |-> -1,
     origin |-> IF exc = "ContainerError" THEN "container_error" ELSE "sandbox_error"]

\* a slip: any exit code that is not negative counts as success
StatusOfExit_NonNegative(exit_code) ==
    IF exit_code >= 0 THEN "success" ELSE "failure"

\* execute, line 227
StatusOfExit(exit_code) ==
    IF exit_code = 0 THEN "success" ELSE "failure"

\* execute, lines 224-229: the result of the normal path
NormalResult(exit_code) ==
    [status |-> StatusOfExit(exit_code), exit_code |-> exit_code, origin |-> "exec_run"]

\* __init__: docker.from_env() and ping() succeed or raise; the timeout is stored
SandboxInit ==
    /\ sb_pc = "new"
    /\ \E avail \in BOOLEAN, t \in 1..MaxSandboxTimeout :
         /\ docker_available' = avail
         /\ sb_timeout' = t
    /\ sb_pc' = "ready"
    /\ UNCHANGED <<container, backend, code_files, cmd_duration, sb_elapsed, sb_result>>
    /\ UNCHANGED outsideSandbox

\* execute, lines 174-188: the availability check, container = None, start_time
ExecuteEnter ==
    /\ sb_pc = "ready"
    /\ \E files \in BOOLEAN, d \in 0..MaxCmdDuration :
         /\ code_files' = files
         /\ cmd_duration' = d
    /\ container' = FALSE
    /\ sb_elapsed' = 0
    /\ IF ~docker_available
         THEN /\ sb_result' = UnavailableResult
              /\ sb_pc' = "returned"
         ELSE /\ sb_result' = NoResult
              /\ sb_pc' = "create"
    /\ UNCHANGED <<docker_available, sb_timeout, backend>>
    /\ UNCHANGED outsideSandbox

\* execute, lines 192-203: client.containers.run returns a container or raises
ContainersRun ==
    /\ sb_pc = "create"
    /\ \/ /\ container' = TRUE
          /\ backend' = "running"
          /\ sb_pc' = "inject"
          /\ UNCHANGED sb_result
       \/ \E exc \in DockerExceptions :
            /\ sb_result' = ErrorResult(exc)
            /\ sb_pc' = "finally"
            /\ UNCHANGED <<container, backend>>
    /\ UNCHANGED <<docker_available, sb_timeout, code_files, cmd_duration, sb_elapsed>>
    /\ UNCHANGED outsideSandbox

\* execute, lines 206-208: put_archive, only when code_files is non-empty
PutArchive ==
    /\ sb_pc = "inject"
    /\ \/ /\ sb_pc' = "exec"
          /\ UNCHANGED sb_result
       \/ /\ code_files
          /\ \E exc \in DockerExceptions :
               /\ sb_result' = ErrorResult(exc)
               /\ sb_pc' = "finally"
    /\ UNCHANGED <<docker_available, sb_timeout, container, backend, code_files,
                   cmd_duration, sb_elapsed>>
    /\ UNCHANGED outsideSandbox

\* execute, lines 214-229: exec_run blocks until the command has ended (it is
\* given no timeout), then the result is built; or exec_run raises
ExecRun ==
    /\ sb_pc = "exec"
    /\ \/ \E ec \in ExitCodes :
            /\ sb_elapsed' = sb_elapsed + cmd_duration
            /\ sb_result' = NormalResult(ec)
       \/ \E exc \in DockerExceptions :
            /\ sb_result' = ErrorResult(exc)
            /\ UNCHANGED sb_elapsed
    /\ sb_pc' = "finally"
    /\ UNCHANGED <<docker_available, sb_timeout, container, backend, code_files,
                   cmd_duration>>
    /\ UNCHANGED outsideSandbox

\* execute, lines 248-251: finally; container.stop succeeds or raises, and a
\* raise is caught by the except clause of line 254, which skips remove
FinallyStop ==
    /\ sb_pc = "finally"
    /\ IF ~container
         THEN /\ sb_pc' = "returned"
              /\ UNCHANGED backend
         ELSE \/ /\ backend' = "stopped"
                 /\ sb_pc' = "remove"
              \/ /\ sb_pc' = "returned"
                 /\ UNCHANGED backend
    /\ UNCHANGED <<docker_available, sb_timeout, container, code_files, cmd_duration,
                   sb_elapsed, sb_result>>
    /\ UNCHANGED outsideSandbox

\* execute, lines 252-255: container.remove succeeds or raises (caught)
FinallyRemove ==
    /\ sb_pc = "remove"
    /\ \/ backend' = "removed"
       \/ UNCHANGED backend
    /\ sb_pc' = "returned"
    /\ UNCHANGED <<docker_available, sb_timeout, container, code_files, cmd_duration,
                   sb_elapsed, sb_result>>
    /\ UNCHANGED outsideSandbox

SandboxInitState ==
    /\ sb_pc = "new"
    /\ docker_available = FALSE
    /\ sb_timeout = 1
    /\ container = FALSE
    /\ backend = "none"
    /\ code_files = FALSE
    /\ cmd_duration = 0
    /\ sb_elapsed = 0
    /\ sb_result = NoResult

(***************************************************************************)
(* CI polling loops (ci_tools.py, github_tools.py)                         *)
(***************************************************************************)
CiFunctions == {"monitor_ci_for_pr", "wait_for_ci_completion", "monitor_pr"}

\* monitor_ci_for_pr, line 130 (the same three values are tested in
\* wait_for_ci_completion, line 1009, and CIMonitor.monitor_pr, line 68)
TerminalStates == {"success", "failure", "cancelled"}

\* statuses get_ci_status returns that are not terminal
NonTerminalStatuses == {"in_progress", "pending"}

\* a status query that raises instead of returning
QueryRaises == {"raise_GithubException", "raise_Exception"}

QueryOutcomes == TerminalStates \cup NonTerminalStatuses \cup QueryRaises

NoCiResult == [outcome |-> "none", duration |-> 0]

\* wait_for_ci_completion line 1007, CIMonitor.monitor_pr line 66: get_ci_status
\* is called outside any try of the loop, so its exception leaves the loop
QueryUnguarded(q) ==
    IF q \in QueryRaises
      THEN [status |-> "None", propagates |-> TRUE]
      ELSE [status |-> q, propagates |-> FALSE]

\* a slip: the except clause is missing, the exception leaves the loop
QueryGuarded_Uncaught(q) ==
    IF q \in QueryRaises
      THEN [status |-> "None", propagates |-> TRUE]
      ELSE [status |-> q, propagates |-> FALSE]

\* monitor_ci_for_pr, lines 137-143: try get_ci_status / except Exception: status = None
QueryGuarded(q) ==
    IF q \in QueryRaises
      THEN [status |-> "None", propagates |-> FALSE]
      ELSE [status |-> q, propagates |-> FALSE]

\* a slip: the logs are fetched for every terminal status
FetchesLogs_AnyTerminal(status) == status \in TerminalStates

\* monitor_ci_for_pr, lines 170-171 (and github_tools.py line 1011, ci_tools.py
\* line 71): get_ci_failure_logs is called in the failure branch only
FetchesLogs(status) == status = "failure"

\* a slip: the sleep is skipped, the loop spins
Sleep_Skipped(t, interval) == t

\* time.sleep(poll_interval): ci_tools.py lines 79 and 231, github_tools.py line 1017
Sleep(t, interval) == t + interval

\* a slip: everything that is not a failure is reported as passed
MonitorOutcome_CancelledPasses(status) ==
    IF status = "failure" THEN "FAILED" ELSE "PASSED"

\* monitor_ci_for_pr, lines 149-205: the CI_STATUS label of a terminal status
MonitorOutcome(status) ==
    IF status = "success" THEN "PASSED"
    ELSE IF status = "failure" THEN "FAILED"
    ELSE "CANCELLED"

\* wait_for_ci_completion, lines 1011-1014: CI_STATUS: {status.upper()}
WaitOutcome(status) ==
    IF status = "success" THEN "SUCCESS"
    ELSE IF status = "failure" THEN "FAILURE"
    ELSE "CANCELLED"

\* CIMonitor.monitor_pr, lines 71-77: FAILURE for a failure, SUCCESS otherwise
MonitorPrOutcome(status) ==
    IF status = "failure" THEN "failure" ELSE "success"

\* The lines before each loop: client.get_repo and repo.get_pull return or raise.
\* monitor_ci_for_pr, lines 119-125: nothing is caught.
CallMonitorCiForPr ==
    /\ ci_pc = "idle"
    /\ ci_fn' = "monitor_ci_for_pr"
    /\ \E t \in 1..MaxCiTimeout, i \in 1..MaxPollInterval :
         /\ ci_timeout' = t
         /\ ci_interval' = i
    /\ \/ ci_pc' = "polling"
       \/ ci_pc' = "raised"
    /\ UNCHANGED <<ci_now, ci_elapsed, ci_status, check_count, polled, logs_fetched,
                   ci_result>>
    /\ UNCHANGED outsideCi

\* wait_for_ci_completion, lines 997-1004 and 1021-1022: get_repo is outside the
\* try; a GithubException of get_pull becomes the ERROR text
CallWaitForCi ==
    /\ ci_pc = "idle"
    /\ ci_fn' = "wait_for_ci_completion"
    /\ \E t \in 1..MaxCiTimeout, i \in 1..MaxPollInterval :
         /\ ci_timeout' = t
         /\ ci_interval' = i
    /\ \/ /\ ci_pc' = "polling"
          /\ UNCHANGED ci_result
       \/ /\ ci_pc' = "raised"
          /\ UNCHANGED ci_result
       \/ /\ ci_pc' = "returned"
          /\ ci_result' = [outcome |-> "ERROR", duration |-> 0]
    /\ UNCHANGED <<ci_now, ci_elapsed, ci_status, check_count, polled, logs_fetched>>
    /\ UNCHANGED outsideCi

\* CIMonitor.__init__ and monitor_pr, lines 44-63: nothing is caught
CallMonitorPr ==
    /\ ci_pc = "idle"
    /\ ci_fn' = "monitor_pr"
    /\ \E t \in 1..MaxCiTimeout, i \in 1..MaxPollInterval :
         /\ ci_timeout' = t
         /\ ci_interval' = i
    /\ \/ ci_pc' = "polling"
       \/ ci_pc' = "raised"
    /\ UNCHANGED <<ci_now, ci_elapsed, ci_status, check_count, polled, logs_fetched,
                   ci_result>>
    /\ UNCHANGED outsideCi

\* monitor_ci_for_pr, lines 132-231: one iteration of `while True`
MonitorCiForPrTick ==
    /\ ci_fn = "monitor_ci_for_pr"
    /\ ci_pc = "polling"
    /\ \E q \in QueryOutcomes, dq \in 0..MaxQueryDuration :
         LET elapsed == ci_now
             got == QueryGuarded(q)
             after == ci_now + dq
         IN /\ ci_elapsed' = elapsed
            /\ check_count' = check_count + 1
            /\ polled' = Append(polled, q)
            /\ ci_status' = got.status
            /\ IF got.propagates
                 THEN /\ ci_pc' = "raised"
                      /\ ci_now' = after
                      /\ UNCHANGED <<logs_fetched, ci_result>>
               ELSE IF got.status \in TerminalStates
                 THEN /\ ci_result' = [outcome |-> MonitorOutcome(got.status),
                                       duration |-> elapsed]
                      /\ logs_fetched' = logs_fetched + (IF FetchesLogs(got.status) THEN 1 ELSE 0)
                      /\ ci_pc' = "returned"
                      /\ ci_now' = after
               ELSE IF elapsed >= ci_timeout
                 THEN /\ ci_result' = [outcome |-> "TIMEOUT", duration |-> elapsed]
                      /\ ci_pc' = "returned"
                      /\ ci_now' = after
                      /\ UNCHANGED logs_fetched
               ELSE /\ ci_now' = Sleep(after, ci_interval)
                    /\ ci_pc' = "polling"
                    /\ UNCHANGED <<logs_fetched, ci_result>>
    /\ UNCHANGED <<ci_fn, ci_timeout, ci_interval>>
    /\ UNCHANGED outsideCi

\* wait_for_ci_completion, lines 1006-1022: the loop test and one iteration
WaitForCiTick ==
    /\ ci_fn = "wait_for_ci_completion"
    /\ ci_pc = "polling"
    /\ IF ~(ci_now < ci_timeout)
         THEN /\ ci_result' = [outcome |-> "TIMEOUT", duration |-> 0]
              /\ ci_pc' = "returned"
              /\ UNCHANGED <<ci_now, ci_status, polled, logs_fetched>>
         ELSE \E q \in QueryOutcomes, dq \in 0..MaxQueryDuration :
                LET got == QueryUnguarded(q)
                    after == ci_now + dq
                IN /\ polled' = Append(polled, q)
                   /\ ci_status' = got.status
                   /\ IF got.propagates
                        THEN /\ ci_now' = after
                             /\ UNCHANGED logs_fetched
                             /\ IF q = "raise_GithubException"
                                  THEN /\ ci_result' = [outcome |-> "ERROR", duration |-> 0]
                                       /\ ci_pc' = "returned"
                                  ELSE /\ ci_pc' = "raised"
                                       /\ UNCHANGED ci_result
                      ELSE IF got.status \in TerminalStates
                        THEN /\ ci_result' = [outcome |-> WaitOutcome(got.status),
                                              duration |-> 0]
                             /\ logs_fetched' = logs_fetched
                                                  + (IF FetchesLogs(got.status) THEN 1 ELSE 0)
                             /\ ci_pc' = "returned"
                             /\ ci_now' = after
                      ELSE /\ ci_now' = Sleep(after, ci_interval)
                           /\ ci_pc' = "polling"
                           /\ UNCHANGED <<logs_fetched, ci_result>>
    /\ UNCHANGED <<ci_fn, ci_timeout, ci_interval, ci_elapsed, check_count>>
    /\ UNCHANGED outsideCi

\* CIMonitor.monitor_pr, lines 65-81: the loop test and one iteration
MonitorPrTick ==
    /\ ci_fn = "monitor_pr"
    /\ ci_pc = "polling"
    /\ IF ~(ci_now < ci_timeout)
         THEN /\ ci_result' = [outcome |-> "unknown", duration |-> ci_timeout]
              /\ ci_pc' = "returned"
              /\ UNCHANGED <<ci_now, ci_status, polled, logs_fetched>>
         ELSE \E q \in QueryOutcomes, dq \in 0..MaxQueryDuration :
                LET got == QueryUnguarded(q)
                    after == ci_now + dq
                IN /\ polled' = Append(polled, q)
                   /\ ci_status' = got.status
                   /\ IF got.propagates
                        THEN /\ ci_pc' = "raised"
                             /\ ci_now' = after
                             /\ UNCHANGED <<logs_fetched, ci_result>>
                      ELSE IF got.status \in TerminalStates
                        THEN /\ ci_result' = [outcome |-> MonitorPrOutcome(got.status),
                                              duration |-> after]
                             /\ logs_fetched' = logs_fetched
                                                  + (IF FetchesLogs(got.status) THEN 1 ELSE 0)
                             /\ ci_pc' = "returned"
                             /\ ci_now' = after
                      ELSE /\ ci_now' = Sleep(after, ci_interval)
                           /\ ci_pc' = "polling"
                           /\ UNCHANGED <<logs_fetched, ci_result>>
    /\ UNCHANGED <<ci_fn, ci_timeout, ci_interval, ci_elapsed, check_count>>
    /\ UNCHANGED outsideCi

CiInitState ==
    /\ ci_fn = "none"
    /\ ci_pc = "idle"
    /\ ci_timeout = 1
    /\ ci_interval = 1
    /\ ci_now = 0
    /\ ci_elapsed = 0
    /\ ci_status = "None"
    /\ check_count = 0
    /\ polled = <<>>
    /\ logs_fetched = 0
    /\ ci_result = NoCiResult

(***************************************************************************)
(* Termination conditions of the self-correction loops (squads.py)         *)
(***************************************************************************)
\* squads.py line 27: iterations >= 3
DevMaxIterations == 3

\* squads.py line 44: retries >= 2
CiMaxRetries == 2

\* squads.py line 58: iterations >= 2
QaMaxIterations == 2

\* values the "ci_status" key can hold: class CIStatus, plus the "timeout" of
\* the monitors' CI_STATUS: TIMEOUT
CiStatusValues == {"pending", "queued", "in_progress", "success", "failure",
                   "cancelled", "unknown", "timeout"}

\* the markers on_developer_complete distinguishes (developer.py lines 644-652)
DeveloperMarkers == {"DEVELOPMENT_COMPLETE", "DEVELOPMENT_BLOCKED", "none"}

\* squads.py lines 20-31
dev_loop_termination(st) ==
    \/ st.local_tests_passed /\ st.ready_for_pr
    \/ st.dev_iterations >= DevMaxIterations

\* squads.py lines 34-48
ci_loop_termination(st) ==
    \/ st.ci_status = "success"
    \/ st.ci_status = "failure" /\ st.ci_retries >= CiMaxRetries

\* squads.py lines 51-62
qa_loop_termination(st) ==
    \/ st.qa_approved
    \/ st.qa_iterations >= QaMaxIterations

\* One iteration of the Developer loop: the Developer runs, on_developer_complete
\* (developer.py lines 639-652) records its markers, the counter goes up.
DevLoopIteration ==
    /\ ~dev_loop_termination(state)
    /\ state.dev_iterations < MaxLoopIterations
    /\ \E tests \in BOOLEAN, marker \in DeveloperMarkers :
         state' = [state EXCEPT !.local_tests_passed = tests,
                                !.ready_for_pr = (marker = "DEVELOPMENT_COMPLETE"),
                                !.dev_iterations = @ + 1]
    /\ UNCHANGED outsideLoops

\* One iteration of the CI loop: the latest CI status is recorded, the counter goes up.
CiLoopIteration ==
    /\ ~ci_loop_termination(state)
    /\ state.ci_retries < MaxLoopIterations
    /\ \E status \in CiStatusValues :
         state' = [state EXCEPT !.ci_status = status,
                                !.ci_retries = @ + 1]
    /\ UNCHANGED outsideLoops

\* One iteration of the QA loop: the verdict is recorded, the counter goes up.
QaLoopIteration ==
    /\ ~qa_loop_termination(state)
    /\ state.qa_iterations < MaxLoopIterations
    /\ \E approved \in BOOLEAN :
         state' = [state EXCEPT !.qa_approved = approved,
                                !.qa_iterations = @ + 1]
    /\ UNCHANGED outsideLoops

\* state.get(key) of a key that was never written is falsy; get(key, 0) is 0
LoopInitState ==
    state = [local_tests_passed |-> FALSE, ready_for_pr |-> FALSE, dev_iterations |-> 0,
             ci_status |-> "", ci_retries |-> 0,
             qa_approved |-> FALSE, qa_iterations |-> 0]

(***************************************************************************)
(* Issue Workers: the protocol ISSUE_WORKER_PROMPT prescribes, and the      *)
(* Parallel Tech Lead that assigns, dispatches and collects                *)
(***************************************************************************)
Workers == 1..NumWorkers

\* ISSUE_WORKER_PROMPT lines 129, 218, 275: at most 3 Developer attempts
MaxDeveloperAttempts == 3

NoOutcome == [status |-> "none", attempts |-> 0, qa |-> "none"]

TechLeadName == "Parallel_Tech_Lead"

\* create_parallel_tech_lead: worker_id = f"worker_{i + 1}" for i in range(N)
worker_id(n) == "worker_" \o ToString(n)

\* create_issue_worker: worker_name = f"IssueWorker_{worker_id}"
worker_name(wid) == "IssueWorker_" \o wid

\* a slip: the id is left out of the key, every worker is pointed at slot 1
assignment_key_FirstSlot(wid) == "issue_for_" \o "worker_1"

\* create_issue_worker: assignment_key = f"issue_for_{worker_id}"
assignment_key(wid) == "issue_for_" \o wid

\* create_issue_worker: output_key=f"worker_{worker_id}_result"
output_key(wid) == ("worker_" \o wid) \o "_result"

\* the keys the Tech Lead is told to assign: state['issue_for_worker_<n>']
TechLeadSlotKey(n) == "issue_for_worker_" \o ToString(n)

\* a slip: a worker that finds no slot under its key takes the first slot's issue
StateGet_FirstSlotWhenMissing(key) ==
    IF \E n \in Workers : TechLeadSlotKey(n) = key /\ issue_for_worker[n] # 0
      THEN issue_for_worker[CHOOSE n \in Workers : TechLeadSlotKey(n) = key]
      ELSE issue_for_worker[1]

\* state[key] for an assignment lookup: the issue stored there, 0 when missing
StateGet(key) ==
    IF \E n \in Workers : TechLeadSlotKey(n) = key
      THEN issue_for_worker[CHOOSE n \in Workers : TechLeadSlotKey(n) = key]
      ELSE 0

\* a slip: an idle worker is taken for a failed one
IsFailure_IdleCounts(status) == status \in {"WORKER_FAILED", "WORKER_ESCALATE", "WORKER_IDLE"}

\* "ONLY workers with STATUS: WORKER_FAILED or WORKER_ESCALATE are failures!"
IsFailure(status) == status \in {"WORKER_FAILED", "WORKER_ESCALATE"}

\* "Failed (WORKER_FAILED/ESCALATE only): <N>" of the final report
FailureTally(outcomes) ==
    Cardinality({w \in DOMAIN outcomes : IsFailure(outcomes[w].status)})

\* a slip: the Tech Lead goes on as soon as one worker has reported
AllResultsIn_AnyWorker == \E w \in Workers : wk_pc[w] = "done"

\* Step 3: "Once you have results from ALL workers"
AllResultsIn == \A w \in Workers : wk_pc[w] = "done"

\* a slip: retries stop only after a fourth blocked attempt
RetriesExhausted_OffByOne(attempts) == attempts > MaxDeveloperAttempts

\* ISSUE_WORKER_PROMPT line 218: "After 3 failed attempts: Stop retrying"
RetriesExhausted(attempts) == attempts >= MaxDeveloperAttempts

\* PARALLEL_TECH_LEAD_PROMPT Step 2: the first k workers get an issue each, the
\* other slots stay missing; then all workers are dispatched
AssignAndDispatch ==
    /\ tl_pc = "assigning"
    /\ \E k \in 0..NumWorkers :
         /\ issue_for_worker' = [w \in Workers |-> IF w <= k THEN 100 + w ELSE 0]
         /\ state_writes' = state_writes \cup
                {[by |-> TechLeadName, key |-> TechLeadSlotKey(n)] : n \in 1..k}
    /\ tl_pc' = "dispatched"
    /\ wk_pc' = [w \in Workers |-> "idle"]
    /\ UNCHANGED <<wk_attempts, wk_dev_results, wk_outcome, wk_issue, wk_qa_calls,
                   state_reads, tl_failures>>
    /\ UNCHANGED outsideWorkers

\* "FIRST: CHECK YOUR ASSIGNMENT": the worker looks up its assignment key; a
\* missing slot is reported as WORKER_IDLE
CheckAssignment(w) ==
    /\ wk_pc[w] = "idle"
    /\ LET key == assignment_key(worker_id(w))
           issue == StateGet(key)
       IN /\ state_reads' = [state_reads EXCEPT ![w] = @ \cup {key}]
          /\ wk_issue' = [wk_issue EXCEPT ![w] = issue]
          /\ IF issue = 0
               THEN /\ wk_outcome' = [wk_outcome EXCEPT ![w] =
                                         [status |-> "WORKER_IDLE", attempts |-> 0, qa |-> "none"]]
                    /\ wk_pc' = [wk_pc EXCEPT ![w] = "reporting"]
               ELSE /\ wk_pc' = [wk_pc EXCEPT ![w] = "checking_existing_pr"]
                    /\ UNCHANGED wk_outcome
    /\ UNCHANGED <<tl_pc, issue_for_worker, wk_attempts, wk_dev_results, wk_qa_calls,
                   state_writes, tl_failures>>
    /\ UNCHANGED outsideWorkers

\* Phase 0: an issue that already has a PR is reported as WORKER_SKIP
CheckExistingPr(w) ==
    /\ wk_pc[w] = "checking_existing_pr"
    /\ \/ /\ wk_outcome' = [wk_outcome EXCEPT ![w] = [status |-> "WORKER_SKIP", attempts |-> 0, qa |-> "none"]]
          /\ wk_pc' = [wk_pc EXCEPT ![w] = "reporting"]
       \/ /\ wk_pc' = [wk_pc EXCEPT ![w] = "developing"]
          /\ UNCHANGED wk_outcome
    /\ UNCHANGED <<tl_pc, issue_for_worker, wk_attempts, wk_dev_results, wk_issue,
                   wk_qa_calls, state_reads, state_writes, tl_failures>>
    /\ UNCHANGED outsideWorkers

\* Phase 1: transfer_to_agent(Developer); the worker goes on when it returns,
\* Case A to QA, Case B to coaching
DelegateToDeveloper(w) ==
    /\ wk_pc[w] = "developing"
    /\ wk_attempts' = [wk_attempts EXCEPT ![w] = @ + 1]
    /\ \E marker \in {"DEVELOPMENT_COMPLETE", "DEVELOPMENT_BLOCKED"} :
         /\ wk_dev_results' = [wk_dev_results EXCEPT ![w] = Append(@, marker)]
         /\ wk_pc' = [wk_pc EXCEPT ![w] =
                         IF marker = "DEVELOPMENT_COMPLETE" THEN "qa_verifying"
                                                            ELSE "coaching_retry"]
    /\ UNCHANGED <<tl_pc, issue_for_worker, wk_outcome, wk_issue, wk_qa_calls,
                   state_reads, state_writes, tl_failures>>
    /\ UNCHANGED outsideWorkers

\* Phase 1.5: investigate and coach, then retry, or escalate once the
\* attempts are used up
CoachAndRetry(w) ==
    /\ wk_pc[w] = "coaching_retry"
    /\ IF RetriesExhausted(wk_attempts[w])
         THEN /\ wk_outcome' = [wk_outcome EXCEPT ![w] =
                                   [status |-> "WORKER_ESCALATE", attempts |-> wk_attempts[w],
                                    qa |-> "none"]]
              /\ wk_pc' = [wk_pc EXCEPT ![w] = "reporting"]
         ELSE /\ wk_pc' = [wk_pc EXCEPT ![w] = "developing"]
              /\ UNCHANGED wk_outcome
    /\ UNCHANGED <<tl_pc, issue_for_worker, wk_attempts, wk_dev_results, wk_issue,
                   wk_qa_calls, state_reads, state_writes, tl_failures>>
    /\ UNCHANGED outsideWorkers

\* Phase 2: transfer_to_agent(QA); its verdict goes into the WORKER_COMPLETE report
DelegateToQa(w) ==
    /\ wk_pc[w] = "qa_verifying"
    /\ wk_qa_calls' = [wk_qa_calls EXCEPT ![w] = @ + 1]
    /\ \E verdict \in {"PASSED", "FAILED"} :
         wk_outcome' = [wk_outcome EXCEPT ![w] =
                           [status |-> "WORKER_COMPLETE", attempts |-> wk_attempts[w],
                            qa |-> verdict]]
    /\ wk_pc' = [wk_pc EXCEPT ![w] = "reporting"]
    /\ UNCHANGED <<tl_pc, issue_for_worker, wk_attempts, wk_dev_results, wk_issue,
                   state_reads, state_writes, tl_failures>>
    /\ UNCHANGED outsideWorkers

\* Phase 3: the result block is output, which the agent's output_key stores in
\* the session state, and transfer_to_agent hands control back to the Tech Lead
ReportAndReturn(w) ==
    /\ wk_pc[w] = "reporting"
    /\ state_writes' = state_writes \cup
           {[by |-> worker_name(worker_id(w)), key |-> output_key(worker_id(w))]}
    /\ wk_pc' = [wk_pc EXCEPT ![w] = "done"]
    /\ UNCHANGED <<tl_pc, issue_for_worker, wk_attempts, wk_dev_results, wk_outcome,
                   wk_issue, wk_qa_calls, state_reads, tl_failures>>
    /\ UNCHANGED outsideWorkers

\* PARALLEL_TECH_LEAD_PROMPT Step 3: the Tech Lead has control again once a
\* worker transferred back.  With a result still missing it says "Waiting for
\* workers to complete..." and stops; with all of them it records the results,
\* counts the failures and goes on to the Step 4 review
CollectWorkerResults ==
    /\ tl_pc \in {"dispatched", "waiting"}
    /\ \E w \in Workers : wk_pc[w] = "done"
    /\ IF AllResultsIn
         THEN /\ tl_pc' = "reviewing"
              /\ tl_failures' = FailureTally(wk_outcome)
         ELSE /\ tl_pc' = "waiting"
              /\ UNCHANGED tl_failures
    /\ UNCHANGED <<issue_for_worker, wk_pc, wk_attempts, wk_dev_results, wk_outcome,
                   wk_issue, wk_qa_calls, state_reads, state_writes>>
    /\ UNCHANGED outsideWorkers

WorkerInitState ==
    /\ tl_pc = "assigning"
    /\ issue_for_worker = [w \in Workers |-> 0]
    /\ wk_pc = [w \in Workers |-> "not_dispatched"]
    /\ wk_attempts = [w \in Workers |-> 0]
    /\ wk_dev_results = [w \in Workers |-> <<>>]
    /\ wk_outcome = [w \in Workers |-> NoOutcome]
    /\ wk_issue = [w \in Workers |-> 0]
    /\ wk_qa_calls = [w \in Workers |-> 0]
    /\ state_reads = [w \in Workers |-> {}]
    /\ state_writes = {}
    /\ tl_failures = 0

(***************************************************************************)
(* ParallelOrchestrator (parallel_squads.py)                               *)
(***************************************************************************)
IssueStatus == {"pending", "in_progress", "pr_created", "qa_in_progress",
                "qa_passed", "qa_failed", "completed", "failed"}

IssueNumbers == 1..MaxIssueNumber

Tasks == 1..Len(issues)

\* process_issue: worker_id = f"async_worker_{task.issue_number}"
async_worker_id(issue_number) == "async_worker_" \o ToString(issue_number)

\* WorkerResult(issue_number=..., success=..., error=...); pr_number None is 0
WorkerResult(issue_number, success, error) ==
    [issue_number |-> issue_number, success |-> success, pr_number |-> 0,
     qa_passed |-> FALSE, error |-> error]

NoWorkerResult == WorkerResult(0, FALSE, "")

\* how a coroutine ends: it returns a value or it raises
NotFinished == [kind |-> "none", value |-> NoWorkerResult, exc |-> ""]

Returned(result) == [kind |-> "return", value |-> result, exc |-> ""]

Raised(exc) == [kind |-> "raise", value |-> NoWorkerResult, exc |-> exc]

\* a slip: the semaphore lets every caller in
SemaphoreLocked_Never(value) == FALSE

\* asyncio.Semaphore.acquire suspends the caller while the value is 0
SemaphoreLocked(value) == value = 0

\* process_issues: "Convert exceptions to failed results"
ConvertException(outcome, issue_number) ==
    IF outcome.kind = "raise"
      THEN WorkerResult(issue_number, FALSE, outcome.exc)
      ELSE outcome.value

\* asyncio.gather is done when every awaitable is
AllTasksDone == \A t \in Tasks : task_pc[t] = "done"

\* get_summary: the counts over self.results
get_summary(results) ==
    [total |-> Len(results),
     successful |-> Cardinality({i \in DOMAIN results : results[i].success}),
     failed |-> Cardinality({i \in DOMAIN results : ~results[i].success})]

\* __init__
OrchestratorConstruct ==
    /\ po_pc = "new"
    /\ \E n \in 0..MaxWorkersLimit :
         /\ max_workers' = n
         /\ semaphore' = n
    /\ active_workers' = <<>>
    /\ po_results' = <<>>
    /\ po_pc' = "ready"
    /\ UNCHANGED <<issues, task_status, status_log, task_pc, task_return, loop_current,
                   completion_order, gathered, final_results>>
    /\ UNCHANGED outsideOrchestrator

\* process_issues up to the await: one pending IssueTask per issue, and
\* asyncio.gather schedules one process_issue coroutine per task
ProcessIssues ==
    /\ po_pc = "ready"
    /\ \E n \in 0..MaxIssues : \E input \in [1..n -> IssueNumbers] :
         /\ issues' = input
         /\ task_status' = [t \in 1..n |-> "pending"]
         /\ status_log' = [t \in 1..n |-> <<"pending">>]
         /\ task_pc' = [t \in 1..n |-> "scheduled"]
         /\ task_return' = [t \in 1..n |-> NotFinished]
         /\ gathered' = [t \in 1..n |-> NotFinished]
    /\ completion_order' = <<>>
    /\ loop_current' = 0
    /\ po_pc' = "gathering"
    /\ UNCHANGED <<max_workers, semaphore, active_workers, po_results, final_results>>
    /\ UNCHANGED outsideOrchestrator

\* process_issue: `async with self.semaphore`.  The event loop runs one task at
\* a time; a task keeps running until it awaits something that is not ready
AcquireSemaphore(t) ==
    /\ po_pc = "gathering"
    /\ loop_current = 0
    /\ IF SemaphoreLocked(semaphore)
         THEN /\ task_pc[t] = "scheduled"
              /\ task_pc' = [task_pc EXCEPT ![t] = "waiting_semaphore"]
              /\ UNCHANGED <<semaphore, loop_current>>
         ELSE /\ task_pc[t] \in {"scheduled", "waiting_semaphore"}
              /\ semaphore' = semaphore - 1
              /\ loop_current' = t
              /\ task_pc' = [task_pc EXCEPT ![t] = "entered"]
    /\ UNCHANGED <<po_pc, max_workers, active_workers, po_results, issues, task_status,
                   status_log, task_return, completion_order, gathered, final_results>>
    /\ UNCHANGED outsideOrchestrator

\* process_issue: task.status = IN_PROGRESS; self.active_workers[worker_id] = task
StartWorker(t) ==
    /\ loop_current = t
    /\ task_pc[t] = "entered"
    /\ task_status' = [task_status EXCEPT ![t] = "in_progress"]
    /\ status_log' = [status_log EXCEPT ![t] = Append(@, "in_progress")]
    /\ active_workers' = (async_worker_id(issues[t]) :> t) @@ active_workers
    /\ task_pc' = [task_pc EXCEPT ![t] = "working"]
    /\ UNCHANGED <<po_pc, max_workers, semaphore, po_results, issues, task_return,
                   loop_current, completion_order, gathered, final_results>>
    /\ UNCHANGED outsideOrchestrator

\* process_issue, the try block: create_issue_worker returns and the task is
\* COMPLETED with the placeholder result, or it raises and the task is FAILED
RunWorker(t) ==
    /\ loop_current = t
    /\ task_pc[t] = "working"
    /\ \E raised \in BOOLEAN :
         LET status == IF raised THEN "failed" ELSE "completed"
         IN /\ task_status' = [task_status EXCEPT ![t] = status]
            /\ status_log' = [status_log EXCEPT ![t] = Append(@, status)]
            /\ task_return' = [task_return EXCEPT ![t] =
                   Returned(WorkerResult(issues[t], ~raised,
                                         IF raised THEN "Exception" ELSE ""))]
    /\ task_pc' = [task_pc EXCEPT ![t] = "finishing"]
    /\ UNCHANGED <<po_pc, max_workers, semaphore, active_workers, po_results, issues,
                   loop_current, completion_order, gathered, final_results>>
    /\ UNCHANGED outsideOrchestrator

\* process_issue, the finally block and the end of `async with`:
\* del self.active_workers[worker_id] (a KeyError replaces the return value when
\* the key is gone), the semaphore is released and the coroutine is finished
FinallyRelease(t) ==
    /\ loop_current = t
    /\ task_pc[t] = "finishing"
    /\ LET wid == async_worker_id(issues[t])
       IN IF wid \in DOMAIN active_workers
            THEN /\ active_workers' = [k \in DOMAIN active_workers \ {wid} |-> active_workers[k]]
                 /\ gathered' = [gathered EXCEPT ![t] = task_return[t]]
            ELSE /\ UNCHANGED active_workers
                 /\ gathered' = [gathered EXCEPT ![t] = Raised("KeyError")]
    /\ semaphore' = semaphore + 1
    /\ loop_current' = 0
    /\ completion_order' = Append(completion_order, t)
    /\ task_pc' = [task_pc EXCEPT ![t] = "done"]
    /\ UNCHANGED <<po_pc, max_workers, po_results, issues, task_status, status_log,
                   task_return, final_results>>
    /\ UNCHANGED outsideOrchestrator

\* process_issues after the await: gather hands back one outcome per awaitable
\* in the order of its arguments; exceptions become failed results
GatherReturn ==
    /\ po_pc = "gathering"
    /\ loop_current = 0
    /\ AllTasksDone
    /\ final_results' = [i \in Tasks |-> ConvertException(gathered[i], issues[i])]
    /\ po_results' = final_results'
    /\ po_pc' = "returned"
    /\ UNCHANGED <<max_workers, semaphore, active_workers, issues, task_status, status_log,
                   task_pc, task_return, loop_current, completion_order, gathered>>
    /\ UNCHANGED outsideOrchestrator

OrchestratorInitState ==
    /\ po_pc = "new"
    /\ max_workers = 0
    /\ semaphore = 0
    /\ active_workers = <<>>
    /\ po_results = <<>>
    /\ issues = <<>>
    /\ task_status = <<>>
    /\ status_log = <<>>
    /\ task_pc = <<>>
    /\ task_return = <<>>
    /\ loop_current = 0
    /\ completion_order = <<>>
    /\ gathered = <<>>
    /\ final_results = <<>>

(***************************************************************************)
(* Mutation testing: run_mutation_tests, run_mutation_tests_on_branch       *)
(***************************************************************************)
MutationFunctions == {"run_mutation_tests", "run_mutation_tests_on_branch"}

\* run_mutation_tests_on_branch: min_mutation_score: float = 60.0
MinMutationScore == 60

\* what sandbox.execute returns once Docker was found available
ExecuteResults ==
    {NormalResult(c) : c \in ExitCodes} \cup {ErrorResult(exc) : exc \in DockerExceptions}

\* a mutation score the tool printed itself
ParsedScores == {0, 50, 100}

\* scores are fractions, num / den per cent
Score(num, den) == [num |-> num, den |-> den]

ScoreAtLeast(score, percent) == score.num >= percent * score.den

\* total = killed = survived = no_coverage = 0, score = 0.0: the values before
\* any pattern matched; score_matched tells whether a score pattern matched
NoParse == [total |-> 0, killed |-> 0, survived |-> 0, no_coverage |-> 0, score |-> 0,
            score_matched |-> FALSE]

NoReport == [kind |-> "none", status |-> "none", score |-> Score(0, 1)]

DockerUnavailableReport == [kind |-> "docker_unavailable", status |-> "none", score |-> Score(0, 1)]

\* "## Mutation Testing Skipped": no score in it
SkippedReport == [kind |-> "skipped", status |-> "SKIPPED", score |-> Score(0, 1)]

\* a slip: only a positive exit code counts as a failed baseline
BaselineFailed_PositiveExitOnly(fn, result) == result.exit_code > 0

\* run_mutation_tests: test_result.status != ExecutionStatus.SUCCESS;
\* run_mutation_tests_on_branch: baseline_result.exit_code != 0
BaselineFailed(fn, result) ==
    IF fn = "run_mutation_tests"
      THEN result.status # "success"
      ELSE result.exit_code # 0

\* "Calculate score if not found": the printed score, else killed / total
MutationScore(fn, parsed) ==
    LET effective_total ==
            IF fn = "run_mutation_tests_on_branch" /\ parsed.no_coverage > 0
              THEN parsed.total - parsed.no_coverage
              ELSE parsed.total
    IN IF parsed.score = 0 /\ parsed.total > 0 /\ effective_total > 0
         THEN Score(parsed.killed * 100, effective_total)
         ELSE Score(parsed.score, 1)

\* run_mutation_tests: PASSED iff no mutant survived;
\* run_mutation_tests_on_branch: PASSED iff score >= min_mutation_score
MutationStatus(fn, parsed) ==
    IF fn = "run_mutation_tests"
      THEN IF parsed.survived = 0 THEN "PASSED" ELSE "NEEDS_IMPROVEMENT"
      ELSE IF ScoreAtLeast(MutationScore(fn, parsed), MinMutationScore)
             THEN "PASSED" ELSE "NEEDS_IMPROVEMENT"

\* run_mutation_tests up to the baseline: the sandbox is built, and without
\* Docker the call returns at once
CallRunMutationTests ==
    /\ mt_pc = "idle"
    /\ mt_fn' = "run_mutation_tests"
    /\ \E available \in BOOLEAN :
         IF available
           THEN /\ mt_pc' = "baseline"
                /\ UNCHANGED mt_report
           ELSE /\ mt_pc' = "returned"
                /\ mt_report' = DockerUnavailableReport
    /\ UNCHANGED <<mt_executed, mt_baseline, mt_mutation, mt_parsed>>
    /\ UNCHANGED outsideMutation

\* run_mutation_tests_on_branch up to the baseline, likewise
CallRunMutationTestsOnBranch ==
    /\ mt_pc = "idle"
    /\ mt_fn' = "run_mutation_tests_on_branch"
    /\ \E available \in BOOLEAN :
         IF available
           THEN /\ mt_pc' = "baseline"
                /\ UNCHANGED mt_report
           ELSE /\ mt_pc' = "returned"
                /\ mt_report' = DockerUnavailableReport
    /\ UNCHANGED <<mt_executed, mt_baseline, mt_mutation, mt_parsed>>
    /\ UNCHANGED outsideMutation

\* the baseline run and the test on its result
RunBaseline ==
    /\ mt_pc = "baseline"
    /\ \E result \in ExecuteResults :
         /\ mt_baseline' = result
         /\ IF BaselineFailed(mt_fn, result)
              THEN /\ mt_report' = SkippedReport
                   /\ mt_pc' = "returned"
              ELSE /\ mt_pc' = "mutating"
                   /\ UNCHANGED mt_report
    /\ mt_executed' = Append(mt_executed, "baseline")
    /\ UNCHANGED <<mt_fn, mt_mutation, mt_parsed>>
    /\ UNCHANGED outsideMutation

\* the mutation run, the parse of its output and the report.  The result's
\* status is not looked at; an error result has nothing to parse but the
\* error message
RunMutation ==
    /\ mt_pc = "mutating"
    /\ mt_executed' = Append(mt_executed, "mutation")
    /\ \E result \in ExecuteResults :
       \E total \in 0..MaxMutants : \E killed \in 0..total : \E survived \in 0..(total - killed) :
       \E no_coverage \in 0..(total - killed - survived) : \E printed \in ParsedScores :
       \E matched \in {m \in BOOLEAN : ~m => printed = 0} :
         LET parsed == IF result.status = "error"
                         THEN NoParse
                         ELSE [total |-> total, killed |-> killed, survived |-> survived,
                               no_coverage |-> IF mt_fn = "run_mutation_tests"
                                                 THEN 0 ELSE no_coverage,
                               score |-> printed, score_matched |-> matched]
         IN /\ mt_mutation' = result
            /\ mt_parsed' = parsed
            /\ mt_report' = [kind |-> "report", status |-> MutationStatus(mt_fn, parsed),
                             score |-> MutationScore(mt_fn, parsed)]
    /\ mt_pc' = "returned"
    /\ UNCHANGED <<mt_fn, mt_baseline>>
    /\ UNCHANGED outsideMutation

MutationInitState ==
    /\ mt_fn = "none"
    /\ mt_pc = "idle"
    /\ mt_executed = <<>>
    /\ mt_baseline = NoResult
    /\ mt_mutation = NoResult
    /\ mt_parsed = NoParse
    /\ mt_report = NoReport

(***************************************************************************)
(* GitHub gateway: create_branch_with_files, create_branch,                *)
(* push_files_to_branch (github_tools.py)                                  *)
(***************************************************************************)
Paths == 1..MaxPaths

\* a file_changes dict: distinct paths in insertion order
FileChangeLists ==
    {fc \in UNION {[1..n -> Paths] : n \in 0..MaxPaths} :
        \A i, j \in DOMAIN fc : i # j => fc[i] # fc[j]}

Trees == [Paths -> {"absent", "file", "dir"}]

NoGhResult == [kind |-> "none", reason |-> "none", branch_status |-> "none",
               created |-> 0, updated |-> 0]

\* a return value that starts with "ERROR" or "Error"
GhError(reason) == [kind |-> "error", reason |-> reason, branch_status |-> "none",
                    created |-> 0, updated |-> 0]

\* the "SUCCESS: ..." texts, with the counts they print
GhSuccess(status, created, updated) ==
    [kind |-> "success", reason |-> "none", branch_status |-> status,
     created |-> Len(created), updated |-> Len(updated)]

\* create_branch on an existing branch: "Branch ... already exists ... Use a
\* different name or push directly to it."
GhBranchExistsNotice == [kind |-> "notice", reason |-> "branch_exists", branch_status |-> "none",
                         created |-> 0, updated |-> 0]

\* a slip: the message of the refusal is never recognised
IsReferenceExists_Never(error_msg) == FALSE

\* "Reference already exists" in error_msg
IsReferenceExists(error_msg) == error_msg = "Reference already exists"

\* a slip: a created path is not noted
files_created_append_Dropped(created, path) == created

\* files_created.append(file_path)
files_created_append(created, path) == Append(created, path)

\* what repo.get_contents(path, ref=branch) can do: hand back the file or the
\* directory listing, or raise GithubException (404 for nothing there, or any
\* failure of the request)
ProbeOutcomes(path) ==
    IF ~remote_branch THEN {"raise"}
    ELSE IF remote_tree[path] = "file" THEN {"file", "raise"}
    ELSE IF remote_tree[path] = "dir" THEN {"dir", "raise"}
    ELSE {"raise"}

\* what repo.update_file can do for a file that was just read
UpdateOutcomes(path) == {"ok", "raise"}

\* what repo.create_file can do: the remote takes a new file only on an
\* existing branch at a path where nothing is
CreateOutcomes(path) ==
    IF remote_branch /\ remote_tree[path] = "absent" THEN {"ok", "raise"} ELSE {"raise"}

AllPushed ==
    {file_changes[i] : i \in DOMAIN file_changes}
        = {files_created[i] : i \in DOMAIN files_created}
            \cup {files_updated[i] : i \in DOMAIN files_updated}

\* the start of a call: the remote is in some state, the arguments are given
GatewayEnter(fn) ==
    /\ gh_pc = "idle"
    /\ gh_fn' = fn
    /\ \E exists \in BOOLEAN : \E tree \in Trees : \E fc \in FileChangeLists :
         /\ remote_branch' = exists
         /\ branch_preexisting' = exists
         /\ remote_tree' = tree
         /\ file_changes' = fc
    /\ gh_index' = 1
    /\ UNCHANGED <<gh_probes, gh_calls, files_created, files_updated, branch_status>>

\* create_branch_with_files up to the try: get_repo is outside it and its
\* exception leaves the function; then the two validations of file_changes
CallCreateBranchWithFiles ==
    /\ GatewayEnter("create_branch_with_files")
    /\ \E repo \in {"ok", "raise"} : \E content_ok \in BOOLEAN :
         IF repo = "raise"
           THEN /\ gh_pc' = "raised"
                /\ UNCHANGED gh_result
           ELSE IF file_changes' = <<>>
             THEN /\ gh_pc' = "returned"
                  /\ gh_result' = GhError("file_changes_empty")
           ELSE IF ~content_ok
             THEN /\ gh_pc' = "returned"
                  /\ gh_result' = GhError("content_too_short")
           ELSE /\ gh_pc' = "get_branch"
                /\ UNCHANGED gh_result
    /\ UNCHANGED outsideGateway

\* create_branch up to the try
CallCreateBranch ==
    /\ GatewayEnter("create_branch")
    /\ \E repo \in {"ok", "raise"} :
         gh_pc' = IF repo = "raise" THEN "raised" ELSE "get_branch"
    /\ UNCHANGED gh_result
    /\ UNCHANGED outsideGateway

\* push_files_to_branch up to the try
CallPushFilesToBranch ==
    /\ GatewayEnter("push_files_to_branch")
    /\ \E repo \in {"ok", "raise"} :
         gh_pc' = IF repo = "raise" THEN "raised" ELSE "pushing"
    /\ UNCHANGED gh_result
    /\ UNCHANGED outsideGateway

\* repo.get_branch(base_branch): a GithubException goes to the outer handler
GetBaseBranch ==
    /\ gh_pc = "get_branch"
    /\ \E base \in {"ok", "raise"} :
         IF base = "ok"
           THEN /\ gh_pc' = "create_git_ref"
                /\ UNCHANGED gh_result
           ELSE /\ gh_pc' = "returned"
                /\ gh_result' = GhError(IF gh_fn = "create_branch" THEN "creating_branch"
                                                                   ELSE "outer_handler")
    /\ UNCHANGED <<gh_fn, remote_branch, remote_tree, branch_preexisting, file_changes,
                   gh_index, gh_probes, gh_calls, files_created, files_updated, branch_status>>
    /\ UNCHANGED outsideGateway

\* repo.create_git_ref for the new branch.  The remote refuses an existing
\* reference with "Reference already exists"; it can refuse a new one too
CreateGitRef ==
    /\ gh_pc = "create_git_ref"
    /\ \E outcome \in IF remote_branch THEN {"Reference already exists"}
                                       ELSE {"ok", "Resource not accessible"} :
         IF outcome = "ok"
           THEN /\ remote_branch' = TRUE
                /\ IF gh_fn = "create_branch"
                     THEN /\ gh_pc' = "returned"
                          /\ gh_result' = GhSuccess("created", <<>>, <<>>)
                          /\ UNCHANGED branch_status
                     ELSE /\ gh_pc' = "pushing"
                          /\ branch_status' = "created"
                          /\ UNCHANGED gh_result
           ELSE /\ UNCHANGED remote_branch
                /\ IF IsReferenceExists(outcome)
                     THEN IF gh_fn = "create_branch"
                            THEN /\ gh_pc' = "returned"
                                 /\ gh_result' = GhBranchExistsNotice
                                 /\ UNCHANGED branch_status
                            ELSE /\ gh_pc' = "pushing"
                                 /\ branch_status' = "already existed"
                                 /\ UNCHANGED gh_result
                     ELSE /\ gh_pc' = "returned"
                          /\ gh_result' = GhError("creating_branch")
                          /\ UNCHANGED branch_status
    /\ UNCHANGED <<gh_fn, remote_tree, branch_preexisting, file_changes, gh_index, gh_probes,
                   gh_calls, files_created, files_updated>>
    /\ UNCHANGED outsideGateway

\* one round of the push loop: the probe; for a directory the early return; for
\* a file update_file; after a GithubException of the probe or of update_file,
\* create_file, whose own GithubException goes to the outer handler
PushFile ==
    /\ gh_pc = "pushing"
    /\ gh_index <= Len(file_changes)
    /\ LET path == file_changes[gh_index]
       IN \E probe \in ProbeOutcomes(path) : \E upd \in UpdateOutcomes(path) :
          \E crt \in CreateOutcomes(path) :
            /\ gh_probes' = Append(gh_probes, probe)
            /\ IF probe = "dir"
                 THEN /\ gh_pc' = "returned"
                      /\ gh_result' = GhError("is_a_directory")
                      /\ UNCHANGED <<gh_calls, files_created, files_updated, remote_tree, gh_index>>
               ELSE IF probe = "file" /\ upd = "ok"
                 THEN /\ gh_calls' = gh_calls \cup {[op |-> "update_file", path |-> path]}
                      /\ files_updated' = Append(files_updated, path)
                      /\ gh_index' = gh_index + 1
                      /\ UNCHANGED <<gh_pc, gh_result, files_created, remote_tree>>
               ELSE /\ gh_calls' = gh_calls
                          \cup (IF probe = "file" THEN {[op |-> "update_file", path |-> path]} ELSE {})
                          \cup {[op |-> "create_file", path |-> path]}
                    /\ IF crt = "ok"
                         THEN /\ remote_tree' = [remote_tree EXCEPT ![path] = "file"]
                              /\ files_created' = files_created_append(files_created, path)
                              /\ gh_index' = gh_index + 1
                              /\ UNCHANGED <<gh_pc, gh_result, files_updated>>
                         ELSE /\ gh_pc' = "returned"
                              /\ gh_result' = GhError(IF gh_fn = "push_files_to_branch"
                                                        THEN "pushing_files" ELSE "outer_handler")
                              /\ UNCHANGED <<files_created, files_updated, remote_tree, gh_index>>
    /\ UNCHANGED <<gh_fn, remote_branch, branch_preexisting, file_changes, branch_status>>
    /\ UNCHANGED outsideGateway

\* after the loop: the SUCCESS text with the two counts
PushReturn ==
    /\ gh_pc = "pushing"
    /\ gh_index > Len(file_changes)
    /\ gh_pc' = "returned"
    /\ gh_result' = GhSuccess(branch_status, files_created, files_updated)
    /\ UNCHANGED <<gh_fn, remote_branch, remote_tree, branch_preexisting, file_changes,
                   gh_index, gh_probes, gh_calls, files_created, files_updated, branch_status>>
    /\ UNCHANGED outsideGateway

GatewayInitState ==
    /\ gh_fn = "none"
    /\ gh_pc = "idle"
    /\ remote_branch = FALSE
    /\ remote_tree = [p \in Paths |-> "absent"]
    /\ branch_preexisting = FALSE
    /\ file_changes = <<>>
    /\ gh_index = 1
    /\ gh_probes = <<>>
    /\ gh_calls = {}
    /\ files_created = <<>>
    /\ files_updated = <<>>
    /\ branch_status = "none"
    /\ gh_result = NoGhResult

(***************************************************************************)
(* GitHub gateway: create_pr (github_tools.py)                             *)
(***************************************************************************)
Branches == 1..MaxBranches

BaseBranches == {"main", "develop"}

NoPrResult == [kind |-> "none", reason |-> "none", number |-> 0]

\* "SUCCESS: Pull Request Created!" with the number of the new pull request
PrSuccess(number) == [kind |-> "success", reason |-> "none", number |-> number]

\* "NOTE: A PR already exists for this branch!" with the number found
PrNote(number) == [kind |-> "note", reason |-> "none", number |-> number]

\* "ERROR: Branch ... does not exist" and "ERROR creating PR: ..."
PrError(reason) == [kind |-> "error", reason |-> reason, number |-> 0]

\* the numbers of the open pull requests whose head is the branch
PullsOfHead(head) == {n \in DOMAIN pull_requests : pull_requests[n].head = head}

\* the remote has an open pull request from head into base
PullExists(head, base) ==
    \E n \in DOMAIN pull_requests : pull_requests[n] = [head |-> head, base |-> base]

\* what repo.get_branch can do: a branch the remote does not have is a
\* GithubException (404), and any request can fail
GetBranchOutcomes(branch) == IF branch \in pr_branches THEN {"ok", "raise"} ELSE {"raise"}

\* what repo.create_pull can do: the remote opens one pull request per head and
\* base, refuses a head it does not have, and any request can fail
CreatePullOutcomes(head, base) ==
    IF head \notin pr_branches THEN {"Validation Failed"}
    ELSE IF PullExists(head, base) THEN {"A pull request already exists", "Server Error"}
    ELSE {"ok", "Validation Failed", "Server Error"}

\* what iterating repo.get_pulls(state="open", head=...) can do: yield the
\* open pull requests of the head, newest first, or raise
GetPullsOutcomes(head) == {"ok", "raise"}

\* a slip: the failed branch lookup is not acted on
BranchLookupFailed_Ignored(outcome) == FALSE

\* except GithubException around repo.get_branch(branch_name)
BranchLookupFailed(outcome) == outcome = "raise"

\* a slip: the refusal is never recognised
IsPullRequestExists_Never(error_msg) == FALSE

\* "A pull request already exists" in error_msg
IsPullRequestExists(error_msg) == error_msg = "A pull request already exists"

\* the first pull request `for pr in prs` yields: the newest of the head
FirstPull(head) == CHOOSE n \in PullsOfHead(head) : \A k \in PullsOfHead(head) : k <= n

\* create_pr up to the outer try; the first call finds the remote in some state
CallCreatePr ==
    /\ pr_pc \in {"idle", "returned"}
    /\ pr_calls < MaxPrCalls
    /\ pr_calls' = pr_calls + 1
    /\ IF pr_calls = 0
         THEN \E bs \in SUBSET Branches : pr_branches' = bs
         ELSE UNCHANGED pr_branches
    /\ \E head \in Branches : \E base \in BaseBranches :
         /\ pr_head' = head
         /\ pr_base' = base
    /\ pr_pulls_before' = Len(pull_requests)
    /\ pr_api' = <<>>
    /\ pr_result' = NoPrResult
    /\ pr_pc' = "get_branch"
    /\ UNCHANGED pull_requests
    /\ UNCHANGED outsidePulls

\* "Verify branch exists": repo.get_branch inside its own try
VerifyBranch ==
    /\ pr_pc = "get_branch"
    /\ \E outcome \in GetBranchOutcomes(pr_head) :
         /\ pr_api' = Append(pr_api, [op |-> "get_branch", outcome |-> outcome])
         /\ IF BranchLookupFailed(outcome)
              THEN /\ pr_pc' = "returned"
                   /\ pr_result' = PrError("branch_does_not_exist")
              ELSE /\ pr_pc' = "create_pull"
                   /\ UNCHANGED pr_result
    /\ UNCHANGED <<pr_calls, pr_branches, pull_requests, pr_head, pr_base, pr_pulls_before>>
    /\ UNCHANGED outsidePulls

\* repo.create_pull and the outer handler's first test
CreatePull ==
    /\ pr_pc = "create_pull"
    /\ \E outcome \in CreatePullOutcomes(pr_head, pr_base) :
         /\ pr_api' = Append(pr_api, [op |-> "create_pull", outcome |-> outcome])
         /\ IF outcome = "ok"
              THEN /\ pull_requests' = Append(pull_requests,
                                              [head |-> pr_head, base |-> pr_base])
                   /\ pr_pc' = "returned"
                   /\ pr_result' = PrSuccess(Len(pull_requests) + 1)
              ELSE IF IsPullRequestExists(outcome)
                THEN /\ pr_pc' = "get_pulls"
                     /\ UNCHANGED <<pull_requests, pr_result>>
              ELSE /\ pr_pc' = "returned"
                   /\ pr_result' = PrError(outcome)
                   /\ UNCHANGED pull_requests
    /\ UNCHANGED <<pr_calls, pr_branches, pr_head, pr_base, pr_pulls_before>>
    /\ UNCHANGED outsidePulls

\* "Find existing PR": the first pull request of the listing is reported; an
\* empty listing and an exception both fall through to "ERROR creating PR"
FindExistingPr ==
    /\ pr_pc = "get_pulls"
    /\ \E outcome \in GetPullsOutcomes(pr_head) :
         /\ pr_api' = Append(pr_api, [op |-> "get_pulls", outcome |-> outcome])
         /\ pr_result' = IF outcome = "ok" /\ PullsOfHead(pr_head) # {}
                           THEN PrNote(FirstPull(pr_head))
                           ELSE PrError("A pull request already exists")
    /\ pr_pc' = "returned"
    /\ UNCHANGED <<pr_calls, pr_branches, pull_requests, pr_head, pr_base, pr_pulls_before>>
    /\ UNCHANGED outsidePulls

PullsInitState ==
    /\ pr_pc = "idle"
    /\ pr_calls = 0
    /\ pr_branches = {}
    /\ pull_requests = <<>>
    /\ pr_head = 1
    /\ pr_base = "main"
    /\ pr_pulls_before = 0
    /\ pr_api = <<>>
    /\ pr_result = NoPrResult

(***************************************************************************)
(* get_ci_status (github_tools.py)                                         *)
(***************************************************************************)
\* run.status of a workflow run
RunStatuses == {"queued", "in_progress", "completed"}

\* run.conclusion of a completed workflow run
RunConclusions == {"success", "failure", "timed_out", "cancelled", "skipped"}

\* a workflow run as the remote reports it: no conclusion before completion
WorkflowRuns ==
    {[status |-> s, conclusion |-> "None"] : s \in RunStatuses \ {"completed"}}
        \cup {[status |-> "completed", conclusion |-> c] : c \in RunConclusions}

RunLists == UNION {[1..n -> WorkflowRuns] : n \in 0..MaxRuns}

\* status.state of the combined status
CombinedStates == {"success", "pending", "failure", "error"}

\* a combined status as the remote reports it: "pending" when there is no status
CombinedStatuses ==
    {[total_count |-> 0, state |-> "pending"]}
        \cup {[total_count |-> n, state |-> s] : n \in 1..MaxStatuses, s \in CombinedStates}

\* a slip: a timed-out run is not counted as failed
IsFailedConclusion_FailureOnly(conclusion) == conclusion = "failure"

\* run.conclusion == "failure" or run.conclusion == "timed_out"
IsFailedConclusion(conclusion) == conclusion \in {"failure", "timed_out"}

\* the if / elif / elif / else over the three flags after the loop
NativeStatus(completed, failed, cancelled) ==
    IF ~completed THEN "in_progress"
    ELSE IF failed THEN "failure"
    ELSE IF cancelled THEN "cancelled"
    ELSE "success"

\* "Only trust combined status if there are actual statuses"
TrustsCombined(total_count) == total_count > 0

\* the if / elif / elif / else over status.state
CombinedStatus(st) ==
    IF st = "success" THEN "success"
    ELSE IF st = "pending" THEN "pending"
    ELSE IF st = "failure" THEN "failure"
    ELSE st

\* get_ci_status up to the first try: the commit has some runs and statuses on
\* the remote; get_repo is outside every try and its exception leaves the function
CallGetCiStatus ==
    /\ cs_pc = "idle"
    /\ \E runs \in RunLists : workflow_runs' = runs
    /\ \E cs \in CombinedStatuses : commit_statuses' = cs
    /\ \E repo \in {"ok", "raise"} :
         cs_pc' = IF repo = "ok" THEN "get_workflow_runs" ELSE "raised"
    /\ UNCHANGED <<cs_index, all_completed, any_failed, any_cancelled, cs_requests, cs_result>>
    /\ UNCHANGED outsideCiStatus

\* repo.get_workflow_runs(head_sha=...) and runs.totalCount > 0, inside the
\* first try: an exception goes on to the fallback
GetWorkflowRuns ==
    /\ cs_pc = "get_workflow_runs"
    /\ \E outcome \in {"ok", "raise"} :
         /\ cs_requests' = Append(cs_requests,
                                  [op |-> "get_workflow_runs", outcome |-> outcome])
         /\ cs_pc' = IF outcome = "ok" /\ Len(workflow_runs) > 0 THEN "iterating"
                                                                 ELSE "combined"
    /\ cs_index' = 1
    /\ all_completed' = TRUE
    /\ any_failed' = FALSE
    /\ any_cancelled' = FALSE
    /\ UNCHANGED <<workflow_runs, commit_statuses, cs_result>>
    /\ UNCHANGED outsideCiStatus

\* one pass of `for run in runs`; fetching the run can raise, and the
\* exception goes on to the fallback
IterateRun ==
    /\ cs_pc = "iterating"
    /\ cs_index <= Len(workflow_runs)
    /\ \E outcome \in {"ok", "raise"} :
         IF outcome = "raise"
           THEN /\ cs_requests' = Append(cs_requests,
                                         [op |-> "next_run", outcome |-> "raise"])
                /\ cs_pc' = "combined"
                /\ UNCHANGED <<cs_index, all_completed, any_failed, any_cancelled>>
           ELSE LET run == workflow_runs[cs_index]
                IN /\ all_completed' = IF run.status # "completed" THEN FALSE
                                                                   ELSE all_completed
                   /\ any_failed' = IF run.status = "completed"
                                       /\ IsFailedConclusion(run.conclusion)
                                      THEN TRUE ELSE any_failed
                   /\ any_cancelled' = IF run.status = "completed"
                                          /\ ~IsFailedConclusion(run.conclusion)
                                          /\ run.conclusion = "cancelled"
                                         THEN TRUE ELSE any_cancelled
                   /\ cs_index' = cs_index + 1
                   /\ UNCHANGED <<cs_pc, cs_requests>>
    /\ UNCHANGED <<workflow_runs, commit_statuses, cs_result>>
    /\ UNCHANGED outsideCiStatus

\* after the loop: the status decided from the native runs is returned
ReturnNativeStatus ==
    /\ cs_pc = "iterating"
    /\ cs_index > Len(workflow_runs)
    /\ cs_result' = NativeStatus(all_completed, any_failed, any_cancelled)
    /\ cs_pc' = "returned"
    /\ UNCHANGED <<workflow_runs, commit_statuses, cs_index, all_completed, any_failed,
                   any_cancelled, cs_requests>>
    /\ UNCHANGED outsideCiStatus

\* the fallback: repo.get_commit(...).get_combined_status() in its own try,
\* then "No CI found"
GetCombinedStatus ==
    /\ cs_pc = "combined"
    /\ \E outcome \in {"ok", "raise"} :
         /\ cs_requests' = Append(cs_requests,
                                  [op |-> "get_combined_status", outcome |-> outcome])
         /\ cs_result' = IF outcome = "ok" /\ TrustsCombined(commit_statuses.total_count)
                           THEN CombinedStatus(commit_statuses.state)
                           ELSE "pending"
    /\ cs_pc' = "returned"
    /\ UNCHANGED <<workflow_runs, commit_statuses, cs_index, all_completed, any_failed,
                   any_cancelled>>
    /\ UNCHANGED outsideCiStatus

CiStatusInitState ==
    /\ cs_pc = "idle"
    /\ workflow_runs = <<>>
    /\ commit_statuses = [total_count |-> 0, state |-> "pending"]
    /\ cs_index = 1
    /\ all_completed = TRUE
    /\ any_failed = FALSE
    /\ any_cancelled = FALSE
    /\ cs_requests = <<>>
    /\ cs_result = "none"

(***************************************************************************)
(* Sandbox tool wrappers: the command chain and its run (sandbox_tools.py) *)
(***************************************************************************)
\* wrappers that run a command on injected code files
FileWrappers == {"run_in_sandbox", "run_tests_in_sandbox", "run_tests_with_coverage",
                 "lint_code"}

\* wrappers that clone a branch first
BranchWrappers == {"lint_code_on_branch", "run_command_on_branch", "run_tests_on_branch",
                   "run_coverage_on_branch"}

\* validate_syntax reaches the sandbox for JavaScript and TypeScript only
ChainWrappers == FileWrappers \cup BranchWrappers \cup {"validate_syntax"}

\* the operators of the shell that the chains contain, and the line break
ShellOperators == {"&&", ";"}
Newline == "NL"

\* setup_commands of n simple commands
SetupList(n) == [i \in 1..n |-> "setup_" \o ToString(i)]

\* the commands list of run_command_on_branch
DebugList(n) == [i \in 1..n |-> "debug_" \o ToString(i)]

SetupCommandNames == {"setup_" \o ToString(i) : i \in 1..MaxSetupCommands}
DebugCommandNames == {"debug_" \o ToString(i) : i \in 1..MaxDebugCommands}
EchoLabels == {"echo_label_" \o ToString(i) : i \in 1..MaxDebugCommands}
EchoExits == {"echo_exit_" \o ToString(i) : i \in 1..MaxDebugCommands}

\* the command a wrapper is called for
PrimaryCommands == {"primary", "node_check"} \cup DebugCommandNames

\* commands whose text holds single quotes: the two echo lines of
\* run_command_on_branch and the node -e script of validate_syntax
QuotedCommands == EchoLabels \cup EchoExits \cup {"node_check"}

\* commands that end with status 0 whenever they run: the git installation
\* ends in "|| true", cd follows a successful clone, echo prints
AlwaysZero == {"install_git", "cd"} \cup EchoLabels \cup EchoExits

\* the git installation written on one line (lint_code_on_branch,
\* run_coverage_on_branch)
InstallGitOneLine == <<"install_git">>

\* the git installation written as a triple-quoted block: the text starts and
\* ends with a line break (run_command_on_branch, run_tests_on_branch)
InstallGitBlock == <<Newline, "install_git", Newline>>

\* sep.join(parts), each part a piece of shell text
RECURSIVE Join(_, _)
Join(parts, sep) ==
    IF parts = <<>> THEN <<>>
    ELSE IF Len(parts) = 1 THEN parts[1]
    ELSE parts[1] \o <<sep>> \o Join(Tail(parts), sep)

\* one piece of shell text per command of a list
Pieces(list) == [i \in DOMAIN list |-> <<list[i]>>]

\* full_command of the wrappers without a clone: " && ".join(setup_commands) +
\* " && " + command, or the command alone
FileChain(setup, command) ==
    IF setup # <<>> THEN Join(Pieces(setup), "&&") \o <<"&&", command>>
    ELSE <<command>>

\* full_command of lint_code_on_branch, run_tests_on_branch and
\* run_coverage_on_branch: " && ".join(commands) + " && cd /app/repo && " + command
BranchChain(install, setup, command) ==
    Join(<<install, <<"clone">>, <<"cd">>>> \o Pieces(setup), "&&") \o <<"&&", "cd", "&&", command>>

\* user_commands of run_command_on_branch: a label, the command, its exit code
RECURSIVE UserCommands(_, _)
UserCommands(commands, i) ==
    IF i > Len(commands) THEN <<>>
    ELSE << <<"echo_label_" \o ToString(i)>>, <<commands[i]>>, <<"echo_exit_" \o ToString(i)>> >>
            \o UserCommands(commands, i + 1)

\* full_command of run_command_on_branch: " && ".join(base_commands) +
\* " && cd /app/repo && " + " ; ".join(user_commands)
DebugChain(install, setup, commands) ==
    Join(<<install, <<"clone">>, <<"cd">>>> \o Pieces(setup), "&&")
        \o <<"&&", "cd", "&&">> \o Join(UserCommands(commands, 1), ";")

\* the full_command each wrapper builds
FullCommand(fn, setup, commands) ==
    IF fn = "validate_syntax" THEN <<commands[1]>>
    ELSE IF fn \in FileWrappers THEN FileChain(setup, commands[1])
    ELSE IF fn = "run_command_on_branch" THEN DebugChain(InstallGitBlock, setup, commands)
    ELSE IF fn = "run_tests_on_branch" THEN BranchChain(InstallGitBlock, setup, commands[1])
    ELSE BranchChain(InstallGitOneLine, setup, commands[1])

\* container.exec_run(f"sh -c '{command}'"): the string is split into words
\* the way a shell would, so the third word, the script sh runs, ends at the first
\* blank after the first single quote inside the command; the command holding
\* that quote is cut short but still part of the script
RECURSIVE ScriptOf(_)
ScriptOf(command) ==
    IF command = <<>> THEN <<>>
    ELSE IF Head(command) \in QuotedCommands THEN <<Head(command)>>
    ELSE <<Head(command)>> \o ScriptOf(Tail(command))

\* the commands of a chain
CommandsOf(chain) == {chain[i] : i \in DOMAIN chain} \ (ShellOperators \cup {Newline})

\* the exit codes the commands of a chain can end with
ExitOracles(chain) ==
    {x \in [CommandsOf(chain) -> {0, 1}] : \A c \in CommandsOf(chain) \cap AlwaysZero : x[c] = 0}

\* sh -c script: the shell reads the script from left to right.  "a && b" runs
\* b only if a ended with 0; ";" and a line break end the list, and what
\* follows them runs whatever came before; a line break where a command must
\* stand is passed over; an operator where a command must stand is a syntax
\* error, which ends the shell with status 2 before the rest is read.
\*   status: the exit code of the last command run
\*   skip: the and-list being read has failed
\*   at_start: a command must come next
RECURSIVE Sh(_, _, _, _, _, _)
Sh(script, exits, status, skip, at_start, trace) ==
    IF script = <<>> THEN [trace |-> trace, exit_code |-> status]
    ELSE LET word == Head(script)
             rest == Tail(script)
         IN IF word \in ShellOperators /\ at_start
              THEN [trace |-> trace, exit_code |-> 2]
            ELSE IF word = Newline /\ at_start
              THEN Sh(rest, exits, status, skip, TRUE, trace)
            ELSE IF word \in {Newline, ";"}
              THEN Sh(rest, exits, status, FALSE, TRUE, trace)
            ELSE IF word = "&&"
              THEN Sh(rest, exits, status, skip \/ status # 0, TRUE, trace)
            ELSE IF skip
              THEN Sh(rest, exits, status, skip, FALSE, trace)
            ELSE Sh(rest, exits, exits[word], FALSE, FALSE,
                    Append(trace, [command |-> word, exit_code |-> exits[word]]))

\* a slip: the availability check is missing
SandboxUnavailable_Never(available) == FALSE

\* if not sandbox._docker_available
SandboxUnavailable(available) == ~available

\* a wrapper up to sandbox.execute: the DockerSandbox is built, which finds
\* Docker or not; without Docker the wrapper returns its error text; with it
\* the command chain is put together
CallWrapper(fn) ==
    /\ wr_pc = "idle"
    /\ wr_fn' = fn
    /\ \E available \in BOOLEAN :
       \E n \in 0..MaxSetupCommands : \E k \in 1..MaxDebugCommands :
         /\ wr_docker' = available
         /\ wr_setup' = IF fn = "validate_syntax" THEN <<>> ELSE SetupList(n)
         /\ wr_commands' = IF fn = "run_command_on_branch" THEN DebugList(k)
                            ELSE IF fn = "validate_syntax" THEN <<"node_check">>
                            ELSE <<"primary">>
         /\ IF SandboxUnavailable(available)
              THEN /\ wr_pc' = "returned"
                   /\ wr_report' = "docker_not_available"
                   /\ wr_chain' = <<>>
              ELSE /\ wr_pc' = "built"
                   /\ wr_chain' = FullCommand(fn, wr_setup', wr_commands')
                   /\ UNCHANGED wr_report
    /\ UNCHANGED <<wr_containers, wr_trace, wr_result>>
    /\ UNCHANGED outsideWrappers

\* the status line a branch wrapper puts at the head of its report:
\* run_tests_on_branch asks for status SUCCESS and exit code 0 and otherwise
\* writes FAILED with "Fix the failing tests and push again";
\* lint_code_on_branch asks for exit code 0 and otherwise writes ISSUES_FOUND
\* with "Fix the linting issues above"; run_coverage_on_branch asks for exit
\* code 0 and a parsed coverage at the threshold; the other wrappers have no
\* status of that kind
StatusLine(fn, result, coverage_passed) ==
    IF fn = "run_tests_on_branch"
      THEN IF result.status = "success" /\ result.exit_code = 0
             THEN "TEST_STATUS: PASSED" ELSE "TEST_STATUS: FAILED"
    ELSE IF fn = "lint_code_on_branch"
      THEN IF result.exit_code = 0
             THEN "LINT_STATUS: PASSED" ELSE "LINT_STATUS: ISSUES_FOUND"
    ELSE IF fn = "run_coverage_on_branch"
      THEN IF result.exit_code = 0 /\ coverage_passed
             THEN "COVERAGE_STATUS: PASSED" ELSE "COVERAGE_STATUS: FAILED"
    ELSE "report"

\* sandbox.execute(command=full_command, ...) and the wrapper's return: execute
\* returns its error result without Docker, or when the Docker SDK raises;
\* otherwise the shell runs the script in the container. Only the output of a
\* command that ran can hold a coverage figure.
ExecuteWrapper ==
    /\ wr_pc = "built"
    /\ IF ~wr_docker
         THEN /\ wr_result' = UnavailableResult
              /\ UNCHANGED <<wr_containers, wr_trace>>
         ELSE /\ wr_containers' = wr_containers + 1
              /\ \/ \E exc \in DockerExceptions :
                      /\ wr_result' = ErrorResult(exc)
                      /\ UNCHANGED wr_trace
                 \/ \E exits \in ExitOracles(ScriptOf(wr_chain)) :
                      LET run == Sh(ScriptOf(wr_chain), exits, 0, FALSE, TRUE, <<>>)
                      IN /\ wr_trace' = run.trace
                         /\ wr_result' = NormalResult(run.exit_code)
    /\ wr_pc' = "returned"
    /\ \E coverage_passed \in BOOLEAN :
         /\ coverage_passed => (wr_fn = "run_coverage_on_branch" /\ wr_result'.origin = "exec_run")
         /\ wr_report' = StatusLine(wr_fn, wr_result', coverage_passed)
    /\ UNCHANGED <<wr_fn, wr_docker, wr_setup, wr_commands, wr_chain>>
    /\ UNCHANGED outsideWrappers

WrapperInitState ==
    /\ wr_fn = "none"
    /\ wr_pc = "idle"
    /\ wr_docker = FALSE
    /\ wr_setup = <<>>
    /\ wr_commands = <<>>
    /\ wr_chain = <<>>
    /\ wr_containers = 0
    /\ wr_trace = <<>>
    /\ wr_result = NoResult
    /\ wr_report = "none"

(***************************************************************************)
(* Branch wrappers: GITHUB_TOKEN and the text returned (sandbox_tools.py)  *)
(***************************************************************************)
\* the five wrappers that clone a branch with the token in the clone URL
TokenWrappers == {"lint_code_on_branch", "run_command_on_branch", "run_tests_on_branch",
                  "run_coverage_on_branch", "run_mutation_tests_on_branch"}

\* the characters a token is made of (GitHub tokens are letters, digits and "_")
TokenChars == {"a", "b"}

\* a character of the fixed text of a report, which holds no token character
TemplateChar == "#"

\* the replacement text "***"
Mask == <<"*", "*", "*">>

\* the strings over an alphabet, up to a length
Strings(chars, n) == UNION {[1..k -> chars] : k \in 0..n}

\* GITHUB_TOKEN: unset or empty, or a token
Tokens == Strings(TokenChars, MaxTokenLen)

\* what a command can print: anything, the token included
Stdouts == Strings(TokenChars, MaxOutputLen)
Stderrs == Strings(TokenChars, MaxStderrLen)

\* the number of characters of an output that a report shows ([:4000] and the
\* like), scaled to the outputs of the model
OutputShown == 4

\* text[:n]
Truncate(text, n) == IF Len(text) <= n THEN text ELSE SubSeq(text, 1, n)

\* text.startswith(old), old not empty
StartsWith(text, old) == Len(text) >= Len(old) /\ SubSeq(text, 1, Len(old)) = old

\* old in text
Contains(text, old) ==
    \E i \in 1..(Len(text) - Len(old) + 1) : SubSeq(text, i, i + Len(old) - 1) = old

\* text.replace(old, new) for a non-empty old: every occurrence from the left,
\* none overlapping another
RECURSIVE Replace(_, _, _)
Replace(text, old, new) ==
    IF text = <<>> THEN <<>>
    ELSE IF StartsWith(text, old)
      THEN new \o Replace(SubSeq(text, Len(old) + 1, Len(text)), old, new)
    ELSE <<Head(text)>> \o Replace(Tail(text), old, new)

\* a slip: text.replace(old, new, 1), only the first occurrence
RECURSIVE ReplaceFirst(_, _, _)
ReplaceFirst(text, old, new) ==
    IF text = <<>> THEN <<>>
    ELSE IF StartsWith(text, old)
      THEN new \o SubSeq(text, Len(old) + 1, Len(text))
    ELSE <<Head(text)>> \o ReplaceFirst(Tail(text), old, new)

\* a slip: only the first occurrence of the token is masked
CleanToken_FirstOnly(text, token) ==
    IF token # <<>> THEN ReplaceFirst(text, token, Mask) ELSE text

\* "Clean token from output": text.replace(github_token, "***") if github_token
\* else text
CleanToken(text, token) ==
    IF token # <<>> THEN Replace(text, token, Mask) ELSE text

NoOutput == [status |-> "none", exit_code |-> 0, stdout |-> <<>>, stderr |-> <<>>]

\* what sandbox.execute can return to a wrapper: the result of the shell's run
\* with what was printed, or an ERROR result whose stderr is the message of the
\* exception
ExecuteOutputs ==
    {[status |-> StatusOfExit(ec), exit_code |-> ec, stdout |-> out, stderr |-> err] :
        ec \in {0, 1}, out \in Stdouts, err \in Stderrs}
    \cup {[status |-> "error", exit_code |-> -1, stdout |-> <<>>, stderr |-> err] :
            err \in Stderrs}

\* the f-string of a report: fixed text around the shown part of stdout and,
\* when stderr is not empty, around the shown part of stderr
ReportText(stdout, stderr) ==
    <<TemplateChar>> \o Truncate(stdout, OutputShown) \o <<TemplateChar>>
        \o (IF stderr # <<>> THEN Truncate(stderr, OutputShown) \o <<TemplateChar>> ELSE <<>>)

\* the report of run_mutation_tests_on_branch: fixed text around combined[:4000]
\* with combined = stdout + "\n" + stderr
CombinedReportText(stdout, stderr) ==
    <<TemplateChar>> \o Truncate(stdout \o <<Newline>> \o stderr, OutputShown)
        \o <<TemplateChar>>

\* a branch wrapper up to its first sandbox.execute: the token is read from the
\* environment, the sandbox is built, and without Docker the fixed text is
\* returned
CallTokenWrapper(fn) ==
    /\ rd_pc = "idle"
    /\ rd_fn' = fn
    /\ \E token \in Tokens : github_token' = token
    /\ \E available \in BOOLEAN :
         IF SandboxUnavailable(available)
           THEN /\ rd_pc' = "returned"
                /\ rd_path' = "docker_not_available"
                /\ rd_returned' = <<TemplateChar>>
           ELSE /\ rd_pc' = IF fn = "run_mutation_tests_on_branch" THEN "baseline"
                                                                   ELSE "execute"
                /\ UNCHANGED <<rd_path, rd_returned>>
    /\ UNCHANGED rd_result
    /\ UNCHANGED outsideRedaction

\* run_mutation_tests_on_branch: the baseline run; a failed baseline returns
\* the "Mutation Testing Skipped" text with the cleaned baseline output
RunBaselineOnBranch ==
    /\ rd_pc = "baseline"
    /\ \E result \in ExecuteOutputs :
         /\ rd_result' = result
         /\ IF BaselineFailed(rd_fn, result)
              THEN /\ rd_pc' = "returned"
                   /\ rd_path' = "skipped"
                   /\ rd_returned' = ReportText(CleanToken(result.stdout, github_token),
                                                CleanToken(result.stderr, github_token))
              ELSE /\ rd_pc' = "execute"
                   /\ UNCHANGED <<rd_path, rd_returned>>
    /\ UNCHANGED <<rd_fn, github_token>>
    /\ UNCHANGED outsideRedaction

\* sandbox.execute of the full command, "Clean token from output", and the
\* report, which shows the cleaned stdout and stderr
ExecuteAndReport ==
    /\ rd_pc = "execute"
    /\ \E result \in ExecuteOutputs :
         LET stdout == CleanToken(result.stdout, github_token)
             stderr == CleanToken(result.stderr, github_token)
         IN /\ rd_result' = result
            /\ rd_returned' = IF rd_fn = "run_mutation_tests_on_branch"
                                THEN CombinedReportText(stdout, stderr)
                                ELSE ReportText(stdout, stderr)
    /\ rd_path' = "report"
    /\ rd_pc' = "returned"
    /\ UNCHANGED <<rd_fn, github_token>>
    /\ UNCHANGED outsideRedaction

RedactionInitState ==
    /\ rd_fn = "none"
    /\ rd_pc = "idle"
    /\ github_token = <<>>
    /\ rd_result = NoOutput
    /\ rd_path = "none"
    /\ rd_returned = <<>>

(***************************************************************************)
(* Test counts, coverage and the coverage gates (sandbox_tools.py,         *)
(* agents/qa_architect.py)                                                 *)
(***************************************************************************)
\* the tools that report parsed test counts or coverage
ReportWrappers == {"run_tests_in_sandbox", "run_tests_with_coverage",
                   "run_tests_on_branch", "run_coverage_on_branch"}

\* what a line of output can be: text that no pattern matches, "N passed",
\* "N failed", "TOTAL a b N%" (pytest-cov) or "Statements : N%" (Jest)
CountKinds == {"passed", "failed"}
CoverageKinds == {"TOTAL", "Statements"}
OutputLines ==
    {[kind |-> "text", n |-> 0]}
    \cup {[kind |-> k, n |-> n] : k \in CountKinds, n \in 0..MaxCount}
    \cup {[kind |-> k, n |-> n] : k \in CoverageKinds, n \in 0..MaxCoverage}

\* the outputs of a command
Outputs == UNION {[1..k -> OutputLines] : k \in 0..MaxOutputLines}

\* the thresholds a caller can pass
Thresholds == 0..MaxCoverage

\* Python's None where a number can stand
None == -1

\* re.search(pattern, text): the number of the first line of the kind, or None
RECURSIVE Search(_, _)
Search(kind, text) ==
    IF text = <<>> THEN None
    ELSE IF Head(text).kind = kind THEN Head(text).n
    ELSE Search(kind, Tail(text))

\* passed = 0 ... match = re.search(...); if match: passed += int(match.group(1))
CountOf(kind, text) ==
    LET match == Search(kind, text)
    IN IF match # None THEN 0 + match ELSE 0

\* for pattern in patterns: match = re.search(...); if match: coverage = ...; break
RECURSIVE FirstPattern(_, _)
FirstPattern(patterns, text) ==
    IF patterns = <<>> THEN None
    ELSE IF Search(Head(patterns), text) # None THEN Search(Head(patterns), text)
    ELSE FirstPattern(Tail(patterns), text)

\* the coverage patterns of _parse_test_output and of run_coverage_on_branch
\* start with TOTAL and hold Statements; those of run_tests_with_coverage hold
\* TOTAL and no pattern for a Statements line
ParserPatterns == <<"TOTAL", "Statements">>
WithCoveragePatterns == <<"TOTAL">>
OnBranchPatterns == <<"TOTAL", "Statements">>

\* DockerSandbox._parse_test_output followed by lines 225-227 of execute
ParseTestOutput(stdout, exit_code) ==
    [status |-> StatusOfExit(exit_code), exit_code |-> exit_code,
     tests_passed |-> CountOf("passed", stdout),
     tests_failed |-> CountOf("failed", stdout),
     coverage_percent |-> FirstPattern(ParserPatterns, stdout)]

NoParsedResult ==
    [status |-> "none", exit_code |-> 0, tests_passed |-> 0, tests_failed |-> 0,
     coverage_percent |-> None]

\* the truth value of an optional number: None and 0.0 are false
Truthy(x) == x # None /\ x # 0

\* a slip: strictly above the threshold
MeetsThreshold_Strict(coverage, threshold) == coverage > threshold

\* coverage >= min_coverage; coverage_percent >= threshold
MeetsThreshold(coverage, threshold) == coverage >= threshold

\* what a report states, as the text it prints; "absent" is a line the
\* function does not print
NoTestReport ==
    [kind |-> "none", passed |-> "absent", failed |-> "absent", coverage |-> "absent",
     coverage_status |-> "absent", coverage_gate |-> "absent"]

DockerNotAvailableReport == [NoTestReport EXCEPT !.kind = "docker_not_available"]

\* TestResult.to_prompt: the counts, and the coverage line when
\* coverage_percent is true
ToPrompt(result) ==
    [NoTestReport EXCEPT !.kind = "report",
                     !.passed = ToString(result.tests_passed),
                     !.failed = ToString(result.tests_failed),
                     !.coverage = IF Truthy(result.coverage_percent)
                                    THEN ToString(result.coverage_percent)
                                    ELSE "absent"]

\* the tool up to the return of sandbox.execute: the sandbox is built, and
\* the command runs and prints
CallReportWrapper(fn) ==
    /\ rp_pc = "idle"
    /\ rp_fn' = fn
    /\ \E t \in Thresholds : min_coverage' = t
    /\ \E available \in BOOLEAN :
         IF SandboxUnavailable(available)
           THEN /\ rp_pc' = "returned"
                /\ rp_report' = DockerNotAvailableReport
                /\ UNCHANGED <<rp_stdout, rp_result>>
           ELSE /\ \E stdout \in Outputs, exit_code \in {0, 1} :
                     /\ rp_stdout' = stdout
                     /\ rp_result' = ParseTestOutput(stdout, exit_code)
                /\ rp_pc' = "executed"
                /\ UNCHANGED rp_report
    /\ UNCHANGED rp_coverage
    /\ UNCHANGED outsideReports

\* run_tests_in_sandbox: return result.to_prompt()
ReportTestsInSandbox ==
    /\ rp_pc = "executed"
    /\ rp_fn = "run_tests_in_sandbox"
    /\ rp_report' = ToPrompt(rp_result)
    /\ rp_pc' = "returned"
    /\ UNCHANGED <<rp_fn, rp_stdout, min_coverage, rp_result, rp_coverage>>
    /\ UNCHANGED outsideReports

\* run_tests_with_coverage, lines 598-634: to_prompt, the function's own
\* search for the coverage, and the COVERAGE_STATUS line
ReportTestsWithCoverage ==
    /\ rp_pc = "executed"
    /\ rp_fn = "run_tests_with_coverage"
    /\ LET coverage == FirstPattern(WithCoveragePatterns, rp_stdout)
       IN /\ rp_coverage' = coverage
          /\ rp_report' =
               [ToPrompt(rp_result) EXCEPT
                  !.coverage_status =
                      IF coverage # None
                        THEN IF MeetsThreshold(coverage, min_coverage) THEN "PASSED"
                                                                       ELSE "FAILED"
                        ELSE "UNKNOWN"]
    /\ rp_pc' = "returned"
    /\ UNCHANGED <<rp_fn, rp_stdout, min_coverage, rp_result>>
    /\ UNCHANGED outsideReports

\* run_tests_on_branch, lines 1304-1332: the counts of the result
ReportTestsOnBranch ==
    /\ rp_pc = "executed"
    /\ rp_fn = "run_tests_on_branch"
    /\ rp_report' = [NoTestReport EXCEPT !.kind = "report",
                                     !.passed = ToString(rp_result.tests_passed),
                                     !.failed = ToString(rp_result.tests_failed)]
    /\ rp_pc' = "returned"
    /\ UNCHANGED <<rp_fn, rp_stdout, min_coverage, rp_result, rp_coverage>>
    /\ UNCHANGED outsideReports

\* run_coverage_on_branch, lines 1434-1513: the function's own search for the
\* coverage, tests_passed, coverage_passed, coverage_str and the report
ReportCoverageOnBranch ==
    /\ rp_pc = "executed"
    /\ rp_fn = "run_coverage_on_branch"
    /\ LET coverage == FirstPattern(OnBranchPatterns, rp_stdout)
           tests_passed == rp_result.exit_code = 0
           coverage_passed == coverage # None /\ MeetsThreshold(coverage, min_coverage)
       IN /\ rp_coverage' = coverage
          /\ rp_report' =
               [kind |-> "report",
                passed |-> ToString(rp_result.tests_passed),
                failed |-> ToString(rp_result.tests_failed),
                coverage |-> IF Truthy(coverage) THEN ToString(coverage) ELSE "UNKNOWN",
                coverage_status |-> IF tests_passed /\ coverage_passed THEN "PASSED"
                                                                       ELSE "FAILED",
                coverage_gate |-> IF coverage_passed THEN "PASSED" ELSE "FAILED"]
    /\ rp_pc' = "returned"
    /\ UNCHANGED <<rp_fn, rp_stdout, min_coverage, rp_result>>
    /\ UNCHANGED outsideReports

\* check_coverage_gate(coverage_percent, threshold) of the QA architect
CheckCoverageGate ==
    /\ rp_pc = "idle"
    /\ rp_fn' = "check_coverage_gate"
    /\ \E coverage_percent \in 0..MaxCoverage, threshold \in Thresholds :
         /\ rp_coverage' = coverage_percent
         /\ min_coverage' = threshold
         /\ rp_report' =
              [NoTestReport EXCEPT !.kind = "gate",
                               !.coverage_gate =
                                   IF MeetsThreshold(coverage_percent, threshold)
                                     THEN "PASSED" ELSE "FAILED"]
    /\ rp_pc' = "returned"
    /\ UNCHANGED <<rp_stdout, rp_result>>
    /\ UNCHANGED outsideReports

ReportsInitState ==
    /\ rp_fn = "none"
    /\ rp_pc = "idle"
    /\ rp_stdout = <<>>
    /\ min_coverage = 0
    /\ rp_result = NoParsedResult
    /\ rp_coverage = None
    /\ rp_report = NoTestReport

(***************************************************************************)
(* DockerSandbox._parse_test_output: patterns and texts (sandbox_tools.py) *)
(***************************************************************************)
\* A text is a sequence of tokens: a word, or a number with its value.  White
\* space between tokens is left out; a line ends with the token NL.
Word(w) == [w |-> w, n |-> 0]
Num(n) == [w |-> "0-9", n |-> n]
EndOfLine == Word(Newline)

\* In a pattern "\\d+" is a number, "(\\d+)" a number that is captured, ".*?"
\* the shortest run of tokens of one line, and anything else the word itself.
NoMatch == [ok |-> FALSE, groups |-> <<>>]

\* re.match of a pattern at the start of a text: whether it matches, and the
\* numbers captured
RECURSIVE ReMatch(_, _)
ReMatch(pattern, text) ==
    IF pattern = <<>> THEN [ok |-> TRUE, groups |-> <<>>]
    ELSE IF Head(pattern) = ".*?"
      THEN LET here == ReMatch(Tail(pattern), text)
           IN IF here.ok THEN here
              ELSE IF text # <<>> /\ Head(text) # EndOfLine
                THEN ReMatch(pattern, Tail(text))
              ELSE NoMatch
    ELSE IF text = <<>> THEN NoMatch
    ELSE IF Head(pattern) \in {"\\d+", "(\\d+)"}
      THEN IF Head(text).w # "0-9" THEN NoMatch
           ELSE LET rest == ReMatch(Tail(pattern), Tail(text))
                IN IF ~rest.ok THEN NoMatch
                   ELSE IF Head(pattern) = "(\\d+)"
                     THEN [ok |-> TRUE, groups |-> <<Head(text).n>> \o rest.groups]
                   ELSE rest
    ELSE IF Head(text).w = Head(pattern) THEN ReMatch(Tail(pattern), Tail(text))
    ELSE NoMatch

\* re.search(pattern, combined): the first place of the text where the pattern
\* matches
RECURSIVE ReSearch(_, _)
ReSearch(pattern, text) ==
    IF ReMatch(pattern, text).ok THEN ReMatch(pattern, text)
    ELSE IF text = <<>> THEN NoMatch
    ELSE ReSearch(pattern, Tail(text))

\* len(re.findall(pattern, combined)) for a pattern of one word
RECURSIVE ReFindAllCount(_, _)
ReFindAllCount(pattern, text) ==
    IF text = <<>> THEN 0
    ELSE (IF ReMatch(pattern, text).ok THEN 1 ELSE 0) + ReFindAllCount(pattern, Tail(text))

\* match = re.search(...); if match: counter += int(match.group(g))
Group(pattern, text, g) ==
    LET match == ReSearch(pattern, text)
    IN IF match.ok THEN match.groups[g] ELSE 0

\* the patterns of the coverage section in the order tried; each captures the
\* percentage
CoveragePatternList ==
    << <<"TOTAL", "\\d+", "\\d+", "(\\d+)", "%">>,
       <<"All files", "|", "(\\d+)">>,
       <<"Statements", ":", "(\\d+)", "%">>,
       <<"Lines", ":", "(\\d+)", "%">>,
       <<"coverage:", "(\\d+)", "%">>,
       <<"(\\d+)", "%", "coverage">> >>

\* a slip: the first pattern of the list is not tried
RECURSIVE CoverageOf_SkipsFirst(_, _)
CoverageOf_SkipsFirst(patterns, text) ==
    IF patterns = <<>> \/ Tail(patterns) = <<>> THEN None
    ELSE IF ReSearch(patterns[2], text).ok THEN ReSearch(patterns[2], text).groups[1]
    ELSE CoverageOf_SkipsFirst(Tail(patterns), text)

\* coverage = None; each pattern is tried while coverage is None
RECURSIVE CoverageOf(_, _)
CoverageOf(patterns, text) ==
    IF patterns = <<>> THEN None
    ELSE IF ReSearch(Head(patterns), text).ok THEN ReSearch(Head(patterns), text).groups[1]
    ELSE CoverageOf(Tail(patterns), text)

\* the Maven pattern "Tests run: X, Failures: Y, Errors: Z, Skipped: W"
MavenPattern ==
    <<"Tests run:", "(\\d+)", ",", "Failures:", "(\\d+)", ",", "Errors:", "(\\d+)", ",",
      "Skipped:", "(\\d+)">>

\* the cargo pattern "test result:.*?(\d+) passed;\s*(\d+) failed;\s*(\d+) ignored"
CargoPattern ==
    <<"test result:", ".*?", "(\\d+)", "passed", ";", "(\\d+)", "failed", ";", "(\\d+)",
      "ignored">>

\* DockerSandbox._parse_test_output, lines 262-370: every framework's patterns
\* are searched in the whole text and what they capture is added up
parse_test_output(combined) ==
    LET maven == ReSearch(MavenPattern, combined)
        cargo == ReSearch(CargoPattern, combined)
    IN [tests_passed |->
            Group(<<"(\\d+)", "passed">>, combined, 1)
            + Group(<<"Tests:", "(\\d+)", "passed">>, combined, 1)
            + Group(<<"(\\d+)", "passing">>, combined, 1)
            + (IF maven.ok THEN maven.groups[1] - maven.groups[2] - maven.groups[3]
                                  - maven.groups[4]
                           ELSE 0)
            + ReFindAllCount(<<"--- PASS:">>, combined)
            + (IF cargo.ok THEN cargo.groups[1] ELSE 0)
            + Group(<<"Passed:", "(\\d+)">>, combined, 1),
        tests_failed |->
            Group(<<"(\\d+)", "failed">>, combined, 1)
            + Group(<<"Tests:", ".*?", "(\\d+)", "failed">>, combined, 1)
            + Group(<<"(\\d+)", "failing">>, combined, 1)
            + (IF maven.ok THEN maven.groups[2] + maven.groups[3] ELSE 0)
            + ReFindAllCount(<<"--- FAIL:">>, combined)
            + (IF cargo.ok THEN cargo.groups[2] ELSE 0)
            + Group(<<"Failed:", "(\\d+)">>, combined, 1),
        coverage_percent |-> CoverageOf(CoveragePatternList, combined)]

\* the test frameworks the parser supports
Frameworks == {"pytest", "jest", "mocha", "maven", "go", "cargo", "dotnet"}

\* n lines of go test -v
RECURSIVE GoLines(_, _)
GoLines(marker, n) ==
    IF n = 0 THEN <<>> ELSE <<Word(marker), EndOfLine>> \o GoLines(marker, n - 1)

\* what a framework prints for p passed and f failed tests, as the parser's
\* comments give it; Jest and Mocha leave out a count of zero
SummaryText(fw, p, f) ==
    IF fw = "pytest"
      THEN <<Num(p), Word("passed"), Word(","), Num(f), Word("failed"), EndOfLine>>
    ELSE IF fw = "jest"
      THEN <<Word("Tests:")>>
             \o (IF f > 0 THEN <<Num(f), Word("failed"), Word(",")>> ELSE <<>>)
             \o (IF p > 0 THEN <<Num(p), Word("passed"), Word(",")>> ELSE <<>>)
             \o <<Num(p + f), Word("total"), EndOfLine>>
    ELSE IF fw = "mocha"
      THEN <<Num(p), Word("passing"), EndOfLine>>
             \o (IF f > 0 THEN <<Num(f), Word("failing"), EndOfLine>> ELSE <<>>)
    ELSE IF fw = "maven"
      THEN <<Word("Tests run:"), Num(p + f), Word(","), Word("Failures:"), Num(f),
             Word(","), Word("Errors:"), Num(0), Word(","), Word("Skipped:"), Num(0),
             EndOfLine>>
    ELSE IF fw = "go"
      THEN GoLines("--- PASS:", p) \o GoLines("--- FAIL:", f)
    ELSE IF fw = "cargo"
      THEN <<Word("test result:"), Word(IF f > 0 THEN "FAILED." ELSE "ok."), Num(p),
             Word("passed"), Word(";"), Num(f), Word("failed"), Word(";"), Num(0),
             Word("ignored"), EndOfLine>>
    ELSE <<Word("Passed:"), Num(p), Word(","), Word("Failed:"), Num(f), Word(","),
           Word("Skipped:"), Num(0), EndOfLine>>

\* the line "TOTAL <statements> <missed> C%" of the coverage table
TotalText(c) == <<Word("TOTAL"), Num(MaxCoverage), Num(MaxCoverage - c), Num(c), Word("%"),
                  EndOfLine>>

\* what a part of the output is: a framework's summary, the coverage total, or
\* a line no pattern matches
Summaries ==
    {[kind |-> fw, p |-> p, f |-> f] : fw \in Frameworks, p \in 0..MaxCount, f \in 0..MaxCount}
    \cup {[kind |-> "TOTAL", p |-> c, f |-> 0] : c \in 0..MaxCoverage}
    \cup {[kind |-> "text", p |-> 0, f |-> 0]}

TextOf(s) ==
    IF s.kind \in Frameworks THEN SummaryText(s.kind, s.p, s.f)
    ELSE IF s.kind = "TOTAL" THEN TotalText(s.p)
    ELSE <<Word("text"), EndOfLine>>

\* combined = stdout + "\n" + stderr for an output of these parts
RECURSIVE Combined(_)
Combined(lines) ==
    IF lines = <<>> THEN <<>> ELSE TextOf(Head(lines)) \o Combined(Tail(lines))

\* the command runs and prints
CommandPrints ==
    /\ ps_pc = "idle"
    /\ \E lines \in UNION {[1..k -> Summaries] : k \in 0..MaxOutputLines} :
         /\ ps_lines' = lines
         /\ ps_combined' = Combined(lines)
    /\ ps_pc' = "printed"
    /\ UNCHANGED ps_parsed
    /\ UNCHANGED outsideParser

\* execute, line 224: result = self._parse_test_output(stdout, stderr)
ParseTestOutputOfRun ==
    /\ ps_pc = "printed"
    /\ ps_parsed' = parse_test_output(ps_combined)
    /\ ps_pc' = "parsed"
    /\ UNCHANGED <<ps_lines, ps_combined>>
    /\ UNCHANGED outsideParser

ParserInitState ==
    /\ ps_pc = "idle"
    /\ ps_lines = <<>>
    /\ ps_combined = <<>>
    /\ ps_parsed = [tests_passed |-> 0, tests_failed |-> 0, coverage_percent |-> None]

(***************************************************************************)
(* check_all_quality_gates (agents/qa_architect.py)                        *)
(***************************************************************************)
\* mutation scores and thresholds a caller can pass, in per cent
MutationPercents == {0, 60, 100}

Item(key, value) == [key |-> key, value |-> value]

\* [k for k, v in gates.items() if isinstance(v, bool) and not v]
RECURSIVE FalseKeys(_)
FalseKeys(items) ==
    IF items = <<>> THEN <<>>
    ELSE (IF Head(items).value = FALSE THEN <<Head(items).key>> ELSE <<>>)
            \o FalseKeys(Tail(items))

\* all(v for k, v in gates.items() if isinstance(v, bool))
AllTrue(items) == \A i \in DOMAIN items : items[i].value

\* check_mutation_gate: mutation_score >= threshold
MeetsMutationThreshold(mutation_score, threshold) == mutation_score >= threshold

\* check_all_quality_gates, lines 779-783: the dict of the three gates
BuildGates ==
    /\ qg_pc = "idle"
    /\ \E coverage \in 0..MaxCoverage, coverage_threshold \in Thresholds,
          mutation_score \in MutationPercents, mutation_threshold \in MutationPercents,
          tests_passed \in BOOLEAN :
         /\ qg_args' = [coverage |-> coverage, coverage_threshold |-> coverage_threshold,
                        mutation_score |-> mutation_score,
                        mutation_threshold |-> mutation_threshold,
                        tests_passed |-> tests_passed]
         /\ gates' = <<Item("tests_passed", tests_passed),
                       Item("coverage_gate", MeetsThreshold(coverage, coverage_threshold)),
                       Item("mutation_gate",
                            MeetsMutationThreshold(mutation_score, mutation_threshold))>>
    /\ qg_pc' = "gates"
    /\ UNCHANGED outsideGates

\* lines 785-790: gates["all_passed"], then gates["summary"] with the keys of
\* the dict whose value is False, and the return
SummariseGates ==
    /\ qg_pc = "gates"
    /\ LET with_all == Append(gates, Item("all_passed", AllTrue(gates)))
       IN gates' = Append(with_all,
                          [key |-> "summary",
                           value |-> IF AllTrue(gates) THEN "All quality gates passed"
                                                       ELSE "Failed gates",
                           failed |-> IF AllTrue(gates) THEN <<>> ELSE FalseKeys(with_all)])
    /\ qg_pc' = "returned"
    /\ UNCHANGED qg_args
    /\ UNCHANGED outsideGates

GatesInitState ==
    /\ qg_pc = "idle"
    /\ qg_args = [coverage |-> 0, coverage_threshold |-> 0, mutation_score |-> 0,
                  mutation_threshold |-> 0, tests_passed |-> FALSE]
    /\ gates = <<>>

(***************************************************************************)
(* Status markers in agent output (flows/nightwatch/__init__.py,           *)
(* agents/qa_architect.py, agents/developer.py)                            *)
(***************************************************************************)
\* the longest agent output drawn, in lines
MaxTextLines == 2

\* the markers the three parsers look for, each a run of words
MissionComplete == <<"MISSION_STATUS:", "COMPLETE">>
InboxZero == <<"Inbox", "Zero">>
MissionFailed == <<"MISSION_STATUS:", "FAILED">>
VerificationPass == <<"VERIFICATION_STATUS:", "PASS">>
VerificationFail == <<"VERIFICATION_STATUS:", "FAIL">>
DevelopmentComplete == <<"DEVELOPMENT_COMPLETE">>
DevelopmentBlocked == <<"DEVELOPMENT_BLOCKED">>
TestStatusPass == <<"TEST_STATUS:", "PASS">>
Handoff == <<"HANDOFF:">>

\* the lines an agent writes: a marker, or a line of prose that holds none
AgentLines == {MissionComplete, InboxZero, MissionFailed, VerificationPass, VerificationFail,
               DevelopmentComplete, DevelopmentBlocked, TestStatusPass, Handoff,
               <<"Working", "on", "it">>}

\* the texts of at most MaxTextLines lines, joined by line breaks
AgentTexts ==
    {Join(lines, "\n") : lines \in UNION {[1..k -> AgentLines] : k \in 0..MaxTextLines}}

\* NightwatchWorkflow._parse_result: the first marker of the if chain that the
\* text holds decides
parse_result(result) ==
    IF Contains(result, MissionComplete) THEN [success |-> TRUE, status |-> "complete"]
    ELSE IF Contains(result, InboxZero) THEN [success |-> TRUE, status |-> "idle"]
    ELSE IF Contains(result, MissionFailed) THEN [success |-> FALSE, status |-> "failed"]
    ELSE [success |-> FALSE, status |-> "unknown"]

\* workflow._parse_result(result)
ParseResult ==
    /\ mk_pc = "idle"
    /\ \E result \in AgentTexts :
         /\ mk_text' = result
         /\ mk_out' = parse_result(result)
    /\ mk_fn' = "_parse_result"
    /\ mk_pc' = "returned"
    /\ UNCHANGED outsideMarkers

\* on_qa_complete(context, result); a text without a section heading gives
\* _extract_qa_feedback nothing to pick, so the feedback is the whole output
OnQaComplete ==
    /\ mk_pc = "idle"
    /\ \E result \in AgentTexts :
         /\ mk_text' = result
         /\ mk_out' =
              [qa_passed |-> Contains(result, VerificationPass),
               verification_status |->
                   IF Contains(result, VerificationPass) THEN "approved"
                   ELSE IF Contains(result, VerificationFail) THEN "rejected"
                   ELSE "unknown",
               qa_feedback |->
                   IF ~Contains(result, VerificationPass) /\ Contains(result, VerificationFail)
                     THEN result ELSE <<>>,
               handoff_received |-> Contains(result, Handoff)]
    /\ mk_fn' = "on_qa_complete"
    /\ mk_pc' = "returned"
    /\ UNCHANGED outsideMarkers

\* on_developer_complete(context, result); a text without a FILE: line gives
\* _parse_file_changes no file
OnDeveloperComplete ==
    /\ mk_pc = "idle"
    /\ \E result \in AgentTexts :
         /\ mk_text' = result
         /\ mk_out' =
              [local_tests_passed |-> Contains(result, TestStatusPass),
               ready_for_pr |-> Contains(result, DevelopmentComplete),
               development_status |->
                   IF Contains(result, DevelopmentComplete) THEN "complete"
                   ELSE IF Contains(result, DevelopmentBlocked) THEN "blocked"
                   ELSE "unknown",
               handoff_received |-> Contains(result, Handoff),
               file_changes |-> <<>>]
    /\ mk_fn' = "on_developer_complete"
    /\ mk_pc' = "returned"
    /\ UNCHANGED outsideMarkers

MarkersInitState ==
    /\ mk_pc = "idle"
    /\ mk_fn = "none"
    /\ mk_text = <<>>
    /\ mk_out = [status |-> "none"]

(***************************************************************************)
(* The command line: main and run_nightwatch (run.py)                      *)
(***************************************************************************)
\* no dict yet
NoCliResult == [keys |-> {}, status |-> "none", success |-> FALSE, result |-> <<>>]

\* run_nightwatch, lines 91-96: the dict of a dry run has no key "success"
DryRunResult ==
    [keys |-> {"status", "mission", "would_execute"},
     status |-> "dry_run", success |-> FALSE, result |-> <<>>]

\* run_nightwatch, lines 103-112: the dict built from the WorkflowResult
ResultDict(workflow_result, raw_output) ==
    [keys |-> {"status", "success", "result", "repo", "issue", "pr_url", "duration", "error"},
     status |-> workflow_result.status, success |-> workflow_result.success,
     result |-> raw_output]

\* NightwatchWorkflow.execute, lines 96-99: except Exception
ErrorWorkflowResult == [success |-> FALSE, status |-> "error"]

\* validate_environment: the errors in the order they are appended
ValidationErrors(token_missing, google_missing) ==
    (IF token_missing THEN <<"GITHUB_TOKEN is required">> ELSE <<>>)
       \o (IF google_missing
             THEN <<"Either GOOGLE_API_KEY or GOOGLE_CLOUD_PROJECT is required for Gemini provider">>
             ELSE <<>>)

\* a slip: the branch of the dry run is missing, so a dry run falls to the else
ExitCodeOf_NoDryRunBranch(result) ==
    IF ("success" \in result.keys /\ result.success) \/ result.status \in {"complete", "idle"}
      THEN 0
    ELSE 1

\* main, lines 177-194: sys.exit(1) in the else branch only; the other two
\* branches fall off the end of main
ExitCodeOf(result) ==
    IF ("success" \in result.keys /\ result.success) \/ result.status \in {"complete", "idle"}
      THEN 0
    ELSE IF result.status = "dry_run" THEN 0
    ELSE 1

\* parser.parse_args(): --repo is required, and argparse exits with 2 without it
ParseArgs ==
    /\ cli_pc = "start"
    /\ \E repo_given \in BOOLEAN, issue \in {None, 1}, dry_run \in BOOLEAN, verbose \in BOOLEAN :
         /\ cli_args' = [repo_given |-> repo_given, issue |-> issue,
                         dry_run |-> dry_run, verbose |-> verbose]
         /\ IF repo_given
              THEN /\ cli_pc' = "parsed"
                   /\ UNCHANGED cli_exit
              ELSE /\ cli_pc' = "exited"
                   /\ cli_exit' = 2
    /\ UNCHANGED <<cli_errors, cli_result, agent_runs>>
    /\ UNCHANGED outsideCli

\* errors = validate_environment(); if errors: ... sys.exit(1)
ValidateEnvironment ==
    /\ cli_pc = "parsed"
    /\ \E token_missing \in BOOLEAN, google_missing \in BOOLEAN :
         /\ cli_errors' = ValidationErrors(token_missing, google_missing)
         /\ IF cli_errors' # <<>>
              THEN /\ cli_pc' = "exited"
                   /\ cli_exit' = 1
              ELSE /\ cli_pc' = "validated"
                   /\ UNCHANGED cli_exit
    /\ UNCHANGED <<cli_args, cli_result, agent_runs>>
    /\ UNCHANGED outsideCli

\* result = run_nightwatch(...): the dict of a dry run, or workflow.execute,
\* where root_agent.run returns a text that _parse_result reads, or raises
RunNightwatch ==
    /\ cli_pc = "validated"
    /\ IF cli_args.dry_run
         THEN /\ cli_result' = DryRunResult
              /\ UNCHANGED agent_runs
         ELSE /\ agent_runs' = agent_runs + 1
              /\ \/ \E output \in AgentTexts :
                      cli_result' = ResultDict(parse_result(output), output)
                 \/ cli_result' = ResultDict(ErrorWorkflowResult, <<>>)
    /\ cli_pc' = "ran"
    /\ UNCHANGED <<cli_args, cli_errors, cli_exit>>
    /\ UNCHANGED outsideCli

\* the report of the result and the end of main
ReportResult ==
    /\ cli_pc = "ran"
    /\ cli_exit' = ExitCodeOf(cli_result)
    /\ cli_pc' = "exited"
    /\ UNCHANGED <<cli_args, cli_errors, cli_result, agent_runs>>
    /\ UNCHANGED outsideCli

CliInitState ==
    /\ cli_pc = "start"
    /\ cli_args = [repo_given |-> FALSE, issue |-> None, dry_run |-> FALSE, verbose |-> FALSE]
    /\ cli_errors = <<>>
    /\ cli_result = NoCliResult
    /\ cli_exit = None
    /\ agent_runs = 0

(***************************************************************************)
(* GitHubClient: the singleton and its repository cache                    *)
(* (tools/github_tools.py). The class has no lock; callers that run in     *)
(* threads are interleaved between the statements of __new__, __init__ and *)
(* get_repo. GITHUB_TOKEN is set.                                          *)
(***************************************************************************)
\* the callers that make their first call at the same time
MaxCallers == 2

Callers == 1..MaxCallers

RepoNames == {"org/a", "org/b"}

\* an empty dict of repository handles
EmptyCache == [n \in RepoNames |-> None]

\* super().__new__(cls): an object with no attribute set yet
BareObject == [initialized |-> "unset", client |-> None, has_cache |-> FALSE,
               repo_cache |-> EmptyCache]

\* setattr(obj, field, value) on the object numbered o
SetAttr(o, field, value) == [gc_objects EXCEPT ![o] = [@ EXCEPT ![field] = value]]

\* if cls._instance is None
InstanceMissing(instance) == instance = None

\* __new__, line 103: the test of the class attribute
NewCheck(c) ==
    /\ gc_pc[c] = "start"
    /\ gc_pc' = [gc_pc EXCEPT ![c] = IF InstanceMissing(gc_instance) THEN "new_create"
                                                                    ELSE "new_return"]
    /\ UNCHANGED <<gc_instance, gc_objects, gc_self, gc_name, gc_got, gc_raised,
                   gc_clients, gc_handles>>
    /\ UNCHANGED outsideClient

\* __new__, line 104: cls._instance = super().__new__(cls)
NewCreate(c) ==
    /\ gc_pc[c] = "new_create"
    /\ gc_objects' = Append(gc_objects, BareObject)
    /\ gc_instance' = Len(gc_objects) + 1
    /\ gc_pc' = [gc_pc EXCEPT ![c] = "new_mark"]
    /\ UNCHANGED <<gc_self, gc_name, gc_got, gc_raised, gc_clients, gc_handles>>
    /\ UNCHANGED outsideClient

\* __new__, line 105: cls._instance._initialized = False, on the object the
\* class attribute names at that moment
NewMark(c) ==
    /\ gc_pc[c] = "new_mark"
    /\ gc_objects' = SetAttr(gc_instance, "initialized", "false")
    /\ gc_pc' = [gc_pc EXCEPT ![c] = "new_return"]
    /\ UNCHANGED <<gc_instance, gc_self, gc_name, gc_got, gc_raised, gc_clients, gc_handles>>
    /\ UNCHANGED outsideClient

\* __new__, line 106: return cls._instance; Python then calls __init__ on it
NewReturn(c) ==
    /\ gc_pc[c] = "new_return"
    /\ gc_self' = [gc_self EXCEPT ![c] = gc_instance]
    /\ gc_pc' = [gc_pc EXCEPT ![c] = "init_check"]
    /\ UNCHANGED <<gc_instance, gc_objects, gc_name, gc_got, gc_raised, gc_clients, gc_handles>>
    /\ UNCHANGED outsideClient

\* __init__, lines 110-111: if self._initialized: return; reading an attribute
\* that is not set raises AttributeError
InitCheck(c) ==
    /\ gc_pc[c] = "init_check"
    /\ LET flag == gc_objects[gc_self[c]].initialized
       IN /\ gc_pc' = [gc_pc EXCEPT ![c] = IF flag = "unset" THEN "raised"
                                            ELSE IF flag = "true" THEN "has_client"
                                            ELSE "init_client"]
          /\ gc_raised' = [gc_raised EXCEPT ![c] = IF flag = "unset" THEN "AttributeError"
                                                                      ELSE @]
    /\ UNCHANGED <<gc_instance, gc_objects, gc_self, gc_name, gc_got, gc_clients, gc_handles>>
    /\ UNCHANGED outsideClient

\* __init__, lines 113-119: the token, self.auth, self.client = Github(...),
\* self.current_user
InitClient(c) ==
    /\ gc_pc[c] = "init_client"
    /\ gc_clients' = gc_clients + 1
    /\ gc_objects' = SetAttr(gc_self[c], "client", gc_clients + 1)
    /\ gc_pc' = [gc_pc EXCEPT ![c] = "init_cache"]
    /\ UNCHANGED <<gc_instance, gc_self, gc_name, gc_got, gc_raised, gc_handles>>
    /\ UNCHANGED outsideClient

\* __init__, line 120: self._repo_cache = {}
InitCache(c) ==
    /\ gc_pc[c] = "init_cache"
    /\ gc_objects' = [gc_objects EXCEPT ![gc_self[c]] =
                         [@ EXCEPT !.has_cache = TRUE, !.repo_cache = EmptyCache]]
    /\ gc_pc' = [gc_pc EXCEPT ![c] = "init_done"]
    /\ UNCHANGED <<gc_instance, gc_self, gc_name, gc_got, gc_raised, gc_clients, gc_handles>>
    /\ UNCHANGED outsideClient

\* __init__, line 121: self._initialized = True, and _get_client() returns
InitDone(c) ==
    /\ gc_pc[c] = "init_done"
    /\ gc_objects' = SetAttr(gc_self[c], "initialized", "true")
    /\ gc_pc' = [gc_pc EXCEPT ![c] = "has_client"]
    /\ UNCHANGED <<gc_instance, gc_self, gc_name, gc_got, gc_raised, gc_clients, gc_handles>>
    /\ UNCHANGED outsideClient

\* get_repo, line 126: if repo_name not in self._repo_cache
GetRepo(c) ==
    /\ gc_pc[c] = "has_client"
    /\ \E repo_name \in RepoNames :
         LET self == gc_objects[gc_self[c]]
         IN /\ gc_name' = [gc_name EXCEPT ![c] = repo_name]
            /\ gc_pc' = [gc_pc EXCEPT ![c] = IF ~self.has_cache THEN "raised"
                                              ELSE IF self.repo_cache[repo_name] = None
                                                THEN "repo_fetch"
                                              ELSE "repo_return"]
            /\ gc_raised' = [gc_raised EXCEPT ![c] = IF ~self.has_cache THEN "AttributeError"
                                                                        ELSE @]
    /\ UNCHANGED <<gc_instance, gc_objects, gc_self, gc_got, gc_clients, gc_handles>>
    /\ UNCHANGED outsideClient

\* get_repo, line 127: self._repo_cache[repo_name] = self.client.get_repo(repo_name);
\* the handle is made first and stored in the dict the attribute names then
RepoFetch(c) ==
    /\ gc_pc[c] = "repo_fetch"
    /\ gc_handles' = gc_handles + 1
    /\ gc_objects' = [gc_objects EXCEPT ![gc_self[c]] =
                         [@ EXCEPT !.repo_cache = [@ EXCEPT ![gc_name[c]] = gc_handles + 1]]]
    /\ gc_pc' = [gc_pc EXCEPT ![c] = "repo_return"]
    /\ UNCHANGED <<gc_instance, gc_self, gc_name, gc_got, gc_raised, gc_clients>>
    /\ UNCHANGED outsideClient

\* get_repo, line 128: return self._repo_cache[repo_name]; a key that is not
\* in the dict raises KeyError
RepoReturn(c) ==
    /\ gc_pc[c] = "repo_return"
    /\ LET handle == gc_objects[gc_self[c]].repo_cache[gc_name[c]]
       IN /\ gc_got' = [gc_got EXCEPT ![c] = handle]
          /\ gc_pc' = [gc_pc EXCEPT ![c] = IF handle = None THEN "raised" ELSE "done"]
          /\ gc_raised' = [gc_raised EXCEPT ![c] = IF handle = None THEN "KeyError" ELSE @]
    /\ UNCHANGED <<gc_instance, gc_objects, gc_self, gc_name, gc_clients, gc_handles>>
    /\ UNCHANGED outsideClient

ClientInitState ==
    /\ gc_instance = None
    /\ gc_objects = <<>>
    /\ gc_pc = [c \in Callers |-> "start"]
    /\ gc_self = [c \in Callers |-> None]
    /\ gc_name = [c \in Callers |-> "none"]
    /\ gc_got = [c \in Callers |-> None]
    /\ gc_raised = [c \in Callers |-> "none"]
    /\ gc_clients = 0
    /\ gc_handles = 0

(***************************************************************************)
(* Specifications                                                          *)
(***************************************************************************)
Init ==
    /\ SandboxInitState
    /\ CiInitState
    /\ LoopInitState
    /\ WorkerInitState
    /\ OrchestratorInitState
    /\ MutationInitState
    /\ GatewayInitState
    /\ PullsInitState
    /\ CiStatusInitState
    /\ WrapperInitState
    /\ RedactionInitState
    /\ ReportsInitState
    /\ ParserInitState
    /\ GatesInitState
    /\ MarkersInitState
    /\ CliInitState
    /\ ClientInitState

SandboxNext ==
    \/ SandboxInit
    \/ ExecuteEnter
    \/ ContainersRun
    \/ PutArchive
    \/ ExecRun
    \/ FinallyStop
    \/ FinallyRemove

CiNext ==
    \/ CallMonitorCiForPr
    \/ CallWaitForCi
    \/ CallMonitorPr
    \/ MonitorCiForPrTick
    \/ WaitForCiTick
    \/ MonitorPrTick

LoopNext ==
    \/ DevLoopIteration
    \/ CiLoopIteration
    \/ QaLoopIteration

WorkerNext ==
    \/ AssignAndDispatch
    \/ \E w \in Workers : CheckAssignment(w)
    \/ \E w \in Workers : CheckExistingPr(w)
    \/ \E w \in Workers : DelegateToDeveloper(w)
    \/ \E w \in Workers : CoachAndRetry(w)
    \/ \E w \in Workers : DelegateToQa(w)
    \/ \E w \in Workers : ReportAndReturn(w)
    \/ CollectWorkerResults

OrchestratorNext ==
    \/ OrchestratorConstruct
    \/ ProcessIssues
    \/ \E t \in Tasks : AcquireSemaphore(t)
    \/ \E t \in Tasks : StartWorker(t)
    \/ \E t \in Tasks : RunWorker(t)
    \/ \E t \in Tasks : FinallyRelease(t)
    \/ GatherReturn

MutationNext ==
    \/ CallRunMutationTests
    \/ CallRunMutationTestsOnBranch
    \/ RunBaseline
    \/ RunMutation

GatewayNext ==
    \/ CallCreateBranchWithFiles
    \/ CallCreateBranch
    \/ CallPushFilesToBranch
    \/ GetBaseBranch
    \/ CreateGitRef
    \/ PushFile
    \/ PushReturn

PullsNext ==
    \/ CallCreatePr
    \/ VerifyBranch
    \/ CreatePull
    \/ FindExistingPr

CiStatusNext ==
    \/ CallGetCiStatus
    \/ GetWorkflowRuns
    \/ IterateRun
    \/ ReturnNativeStatus
    \/ GetCombinedStatus

WrapperNext ==
    \/ \E fn \in ChainWrappers : CallWrapper(fn)
    \/ ExecuteWrapper

RedactionNext ==
    \/ \E fn \in TokenWrappers : CallTokenWrapper(fn)
    \/ RunBaselineOnBranch
    \/ ExecuteAndReport

ReportsNext ==
    \/ \E fn \in ReportWrappers : CallReportWrapper(fn)
    \/ ReportTestsInSandbox
    \/ ReportTestsWithCoverage
    \/ ReportTestsOnBranch
    \/ ReportCoverageOnBranch
    \/ CheckCoverageGate

ParserNext ==
    \/ CommandPrints
    \/ ParseTestOutputOfRun

GatesNext ==
    \/ BuildGates
    \/ SummariseGates

MarkersNext ==
    \/ ParseResult
    \/ OnQaComplete
    \/ OnDeveloperComplete

CliNext ==
    \/ ParseArgs
    \/ ValidateEnvironment
    \/ RunNightwatch
    \/ ReportResult

ClientNext ==
    \/ \E c \in Callers : NewCheck(c)
    \/ \E c \in Callers : NewCreate(c)
    \/ \E c \in Callers : NewMark(c)
    \/ \E c \in Callers : NewReturn(c)
    \/ \E c \in Callers : InitCheck(c)
    \/ \E c \in Callers : InitClient(c)
    \/ \E c \in Callers : InitCache(c)
    \/ \E c \in Callers : InitDone(c)
    \/ \E c \in Callers : GetRepo(c)
    \/ \E c \in Callers : RepoFetch(c)
    \/ \E c \in Callers : RepoReturn(c)

\* The repository has two coordinators of a parallel run, the Parallel Tech Lead
\* with its worker pool and ParallelOrchestrator; a run uses one of them
DispatchNext ==
    \/ po_pc = "new" /\ WorkerNext
    \/ tl_pc = "assigning" /\ OrchestratorNext

\* A sandbox is used directly, through a tool wrapper or through a mutation
\* tool; a run uses one of them
ToolsNext ==
    \/ wr_pc = "idle" /\ mt_pc = "idle" /\ SandboxNext
    \/ sb_pc = "new" /\ mt_pc = "idle" /\ WrapperNext
    \/ sb_pc = "new" /\ wr_pc = "idle" /\ MutationNext

SpecSandbox == Init /\ [][SandboxNext]_vars

SpecCI == Init /\ [][CiNext]_vars

SpecLoops == Init /\ [][LoopNext]_vars

SpecWorkers == Init /\ [][WorkerNext]_vars

\* ParallelAgent runs every worker of the pool, and a worker that can take its
\* next step takes it
SpecWorkersFair ==
    /\ SpecWorkers
    /\ \A w \in Workers : /\ WF_vars(CheckAssignment(w))
                          /\ WF_vars(CheckExistingPr(w))
                          /\ WF_vars(DelegateToDeveloper(w))
                          /\ WF_vars(CoachAndRetry(w))
                          /\ WF_vars(DelegateToQa(w))
                          /\ WF_vars(ReportAndReturn(w))

SpecOrchestrator == Init /\ [][OrchestratorNext]_vars

SpecDispatch == Init /\ [][DispatchNext]_vars

SpecMutation == Init /\ [][MutationNext]_vars

SpecGateway == Init /\ [][GatewayNext]_vars

SpecPulls == Init /\ [][PullsNext]_vars

SpecCiStatus == Init /\ [][CiStatusNext]_vars

SpecWrappers == Init /\ [][WrapperNext]_vars

SpecTools == Init /\ [][ToolsNext]_vars

SpecRedaction == Init /\ [][RedactionNext]_vars

SpecReports == Init /\ [][ReportsNext]_vars

SpecParser == Init /\ [][ParserNext]_vars

SpecGates == Init /\ [][GatesNext]_vars

SpecMarkers == Init /\ [][MarkersNext]_vars

SpecCli == Init /\ [][CliNext]_vars

SpecClient == Init /\ [][ClientNext]_vars

(***************************************************************************)
(* Properties of DockerSandbox.execute                                     *)
(***************************************************************************)
\* C1: when execute returns and a container was provisioned (containers.run
\* returned one), the backend has stopped and removed that container, on
\* every path, a raising stop or remove included.
C1_ContainerStoppedAndRemoved ==
    (sb_pc = "returned" /\ container) => backend = "removed"

\* C2: every returned result has status success iff its exit code is 0, and a
\* non-zero exit code comes with failure or error.
C2_SuccessIffExitZero ==
    sb_pc = "returned" =>
        /\ sb_result.status \in ExecutionStatus
        /\ (sb_result.status = "success") <=> (sb_result.exit_code = 0)
        /\ (sb_result.exit_code # 0) => (sb_result.status \in {"failure", "error"})

\* a returned normal-path result of a command that exited non-zero
C2_NonZeroExitReturned ==
    /\ sb_pc = "returned"
    /\ sb_result.origin = "exec_run"
    /\ sb_result.exit_code = 137
    /\ sb_result.status = "failure"

\* C3: a call whose command runs longer than the constructor's timeout returns
\* status timeout, having waited no longer than that timeout.
C3_LongCommandReturnsTimeout ==
    (sb_pc = "returned" /\ sb_result.origin = "exec_run" /\ cmd_duration > sb_timeout) =>
        /\ sb_result.status = "timeout"
        /\ sb_elapsed <= sb_timeout

(***************************************************************************)
(* Properties of the CI polling loops                                      *)
(***************************************************************************)
LastPolled == polled[Len(polled)]

C5_RaisingQueryIsRetried ==
    (ci_fn = "monitor_ci_for_pr" /\ polled # <<>>) =>
        /\ ci_pc # "raised"
        /\ (LastPolled \in QueryRaises) => (ci_status = "None")
        /\ (LastPolled \in QueryRaises \cup NonTerminalStatuses) =>
              /\ (ci_pc = "returned") <=> (ci_elapsed >= ci_timeout)
              /\ (ci_pc = "returned") => (ci_result.outcome = "TIMEOUT")
              /\ (ci_pc = "polling") => (ci_now >= ci_elapsed + ci_interval)
        /\ (ci_pc = "returned") =>
              ci_result.outcome \in {"PASSED", "FAILED", "CANCELLED", "TIMEOUT"}

\* a query raised, the loop polled again and the call ended with PASSED
C5_PassedAfterARaise ==
    /\ ci_fn = "monitor_ci_for_pr"
    /\ ci_pc = "returned"
    /\ ci_result.outcome = "PASSED"
    /\ Len(polled) >= 2
    /\ polled[1] \in QueryRaises

\* C6: for every sequence of query results without a terminal status, when a
\* polling loop returns, the time it has spent polling and sleeping does not
\* exceed the configured timeout.
C6_ReturnsWithinTimeout ==
    (ci_pc = "returned" /\ \A i \in 1..Len(polled) : polled[i] \notin TerminalStates) =>
        (ci_now <= ci_timeout)

\* the observed sequence is k non-terminal statuses followed by success
NonTerminalThenSuccess(h) ==
    /\ h # <<>>
    /\ h[Len(h)] = "success"
    /\ \A i \in 1..(Len(h) - 1) : h[i] \in NonTerminalStatuses

\* C7: for k non-terminal statuses followed by success the monitor makes
\* exactly k+1 queries, returns success, and reports a duration of at least
\* k * poll_interval; before the success was observed no success is returned.
C7_SuccessAfterKPlusOnePolls ==
    (ci_fn \in {"monitor_ci_for_pr", "monitor_pr"}) =>
        /\ (ci_pc = "returned" /\ NonTerminalThenSuccess(polled)) =>
              /\ (ci_fn = "monitor_ci_for_pr") => (check_count = Len(polled))
              /\ ci_result.outcome \in {"PASSED", "success"}
              /\ ci_result.duration >= (Len(polled) - 1) * ci_interval
        /\ (\A i \in 1..Len(polled) : polled[i] \in NonTerminalStatuses) =>
              ci_result.outcome \notin {"PASSED", "success"}
        /\ (NonTerminalThenSuccess(polled)) => (ci_pc = "returned")

\* in_progress, in_progress, success: the success is returned after the third poll
C7_SuccessOnThirdPoll ==
    /\ ci_fn \in {"monitor_ci_for_pr", "monitor_pr"}
    /\ ci_pc = "returned"
    /\ polled = <<"in_progress", "in_progress", "success">>
    /\ ci_result.outcome \in {"PASSED", "success"}
    /\ ci_result.duration >= 2 * ci_interval

\* C8: in every polling loop no query follows a terminal status, and
\* get_ci_failure_logs is called at most once, only after a failure status.
C8_LogsOnlyOnFailure ==
    /\ \A i \in 1..(Len(polled) - 1) : polled[i] \notin TerminalStates
    /\ (polled # <<>> /\ LastPolled \in TerminalStates) => (ci_pc = "returned")
    /\ logs_fetched <= 1
    /\ (logs_fetched = 1) => (polled # <<>> /\ LastPolled = "failure")

\* a loop has ended on a failure status and fetched the logs once
C8_FailureLogsFetched ==
    /\ ci_pc = "returned"
    /\ Len(polled) >= 2
    /\ LastPolled = "failure"
    /\ logs_fetched = 1

(***************************************************************************)
(* Properties of the Issue Worker and of the termination conditions        *)
(***************************************************************************)
FirstThreeBlocked(w) ==
    /\ Len(wk_dev_results[w]) >= 3
    /\ \A i \in 1..3 : wk_dev_results[w][i] = "DEVELOPMENT_BLOCKED"

C10_LoopsEndWithinFixedIterations ==
    /\ (state.dev_iterations >= DevMaxIterations) => dev_loop_termination(state)
    /\ (state.qa_iterations >= QaMaxIterations) => qa_loop_termination(state)
    /\ (state.ci_retries >= MaxLoopIterations) => ci_loop_termination(state)

(***************************************************************************)
(* Properties of the parallel dispatch                                     *)
(***************************************************************************)
AssignmentKeys == {assignment_key(worker_id(w)) : w \in Workers}

ResultKeys == {output_key(worker_id(w)) : w \in Workers}

WorkerStatuses == {"WORKER_COMPLETE", "WORKER_FAILED", "WORKER_ESCALATE",
                   "WORKER_IDLE", "WORKER_SKIP"}

FailedOrEscalated == {w \in Workers : wk_outcome[w].status \in {"WORKER_FAILED", "WORKER_ESCALATE"}}

InProgress == {t \in Tasks : task_status[t] = "in_progress"}

\* C13: at every point of process_issues, whatever the number of issues, at
\* most max_workers tasks have the status in_progress and active_workers has at
\* most max_workers entries.
C13_AtMostMaxWorkersInProgress ==
    /\ Cardinality(InProgress) <= max_workers
    /\ Cardinality(DOMAIN active_workers) <= max_workers

\* C13 witness: with max_workers = 1 one task is in progress and registered in
\* active_workers while two others have not been started
C13_OneInProgressOthersPending ==
    /\ po_pc = "gathering"
    /\ max_workers = 1
    /\ Cardinality(InProgress) = 1
    /\ Cardinality(DOMAIN active_workers) = 1
    /\ Cardinality({t \in Tasks : task_status[t] = "pending"}) >= 2

\* the lifecycle of an IssueTask, stage by stage
Lifecycle == <<{"pending"}, {"in_progress"}, {"pr_created"}, {"qa_in_progress"},
               {"qa_passed", "qa_failed"}, {"completed", "failed"}>>

Stage(status) == CHOOSE n \in DOMAIN Lifecycle : status \in Lifecycle[n]

\* C16: the statuses a task has had only move forward along the lifecycle, so
\* nothing follows completed or failed, and a completed task has been
\* pr_created and has had a QA verdict before.
C16_StatusFollowsLifecycle ==
    \A t \in Tasks :
        LET log == status_log[t]
        IN /\ \A i \in 1..(Len(log) - 1) : Stage(log[i]) < Stage(log[i + 1])
           /\ task_status[t] = "completed"
                => /\ \E i \in DOMAIN log : log[i] = "pr_created"
                   /\ \E i \in DOMAIN log : log[i] \in {"qa_passed", "qa_failed"}

(***************************************************************************)
(* Properties of the mutation-testing tools                                *)
(***************************************************************************)
\* C17: in both functions, once a baseline run has ended with a non-zero exit
\* code or with a sandbox error, the mutation command is not executed, nothing
\* is parsed or scored, and what the call returns is the "skipped" report.
C17_FailedBaselineSkipsMutation ==
    (mt_executed # <<>> /\ (mt_baseline.exit_code # 0 \/ mt_baseline.status # "success"))
        => /\ mt_executed = <<"baseline">>
           /\ mt_mutation = NoResult
           /\ mt_parsed = NoParse
           /\ mt_pc = "returned"
           /\ mt_report = SkippedReport

\* C17 witness: run_mutation_tests_on_branch has returned after a baseline run
\* that ended in a sandbox error
C17_SkippedAfterSandboxError ==
    /\ mt_fn = "run_mutation_tests_on_branch"
    /\ mt_pc = "returned"
    /\ mt_baseline.status = "error"
    /\ mt_report.kind = "skipped"

(***************************************************************************)
(* Properties of the GitHub gateway                                        *)
(***************************************************************************)
\* C18: when create_branch_with_files has returned an error, the remote has
\* no branch that this call created and that lacks some of the files of
\* file_changes.
C18_ErrorLeavesNoPartialBranch ==
    (/\ gh_fn = "create_branch_with_files"
     /\ gh_pc = "returned"
     /\ gh_result.kind = "error"
     /\ ~branch_preexisting
     /\ remote_branch)
        => AllPushed

CreatedPaths == {files_created[i] : i \in DOMAIN files_created}

UpdatedPaths == {files_updated[i] : i \in DOMAIN files_updated}

\* C20: when push_files_to_branch or create_branch_with_files has returned its
\* success report, every path of file_changes is in exactly one of
\* files_created and files_updated, the two counts of the report add up to the
\* number of paths, update_file was called for exactly the paths whose probe
\* returned a file and create_file for exactly the others.
C20_CreatedAndUpdatedPartitionThePaths ==
    (/\ gh_fn \in {"push_files_to_branch", "create_branch_with_files"}
     /\ gh_result.kind = "success")
        => /\ AllPushed
           /\ CreatedPaths \cap UpdatedPaths = {}
           /\ Len(files_created) + Len(files_updated) = Len(file_changes)
           /\ gh_result.created + gh_result.updated = Len(file_changes)
           /\ \A i \in DOMAIN file_changes :
                LET path == file_changes[i]
                IN /\ ([op |-> "update_file", path |-> path] \in gh_calls)
                          = (gh_probes[i] = "file")
                   /\ ([op |-> "create_file", path |-> path] \in gh_calls)
                          = (gh_probes[i] # "file")
                   /\ (path \in UpdatedPaths) = (gh_probes[i] = "file")

\* C20 witness: push_files_to_branch has succeeded with one file created and
\* one updated
C20_OneCreatedOneUpdated ==
    /\ gh_fn = "push_files_to_branch"
    /\ gh_pc = "returned"
    /\ gh_result.kind = "success"
    /\ gh_result.created = 1
    /\ gh_result.updated = 1

(***************************************************************************)
(* Properties of create_pr                                                 *)
(***************************************************************************)
\* the requests of a call that change the remote
WriteRequests == {"create_pull", "create_git_ref", "create_file", "update_file"}

\* C21: create_pr called with a branch the remote does not have issues no
\* writing request: the remote keeps its branches and its pull requests, the
\* only request made is the refused get_branch, and the call returns the
\* "ERROR: Branch ... does not exist" text.
C21_MissingBranchIsRefusedWithoutWrites ==
    /\ [](  (pr_calls > 0 /\ pr_head \notin pr_branches)
              => /\ \A i \in DOMAIN pr_api : pr_api[i].op \notin WriteRequests
                 /\ Len(pull_requests) = pr_pulls_before
                 /\ pr_pc = "returned"
                      => /\ pr_result = PrError("branch_does_not_exist")
                         /\ pr_api = <<[op |-> "get_branch", outcome |-> "raise"]>>)
    /\ [][pr_calls > 0 => pr_branches' = pr_branches]_vars

\* C21 witness: a call for a missing branch has been refused on a remote that
\* holds a pull request of another branch
C21_MissingBranchRefused ==
    /\ pr_pc = "returned"
    /\ pr_head \notin pr_branches
    /\ pr_result.kind = "error"
    /\ Len(pull_requests) > 0

\* the call in progress found an open pull request of its branch
HadPullOfHead == \E n \in PullsOfHead(pr_head) : n <= pr_pulls_before

\* the call in progress found an open pull request of its branch into its base
HadPullOfHeadIntoBase ==
    \E n \in 1..pr_pulls_before : pull_requests[n] = [head |-> pr_head, base |-> pr_base]

NativeRunsRead ==
    /\ Len(workflow_runs) > 0
    /\ cs_requests = <<[op |-> "get_workflow_runs", outcome |-> "ok"]>>

C24_AggregateOnlyWithoutNativeRuns ==
    /\ (\E i \in DOMAIN cs_requests : cs_requests[i].op = "get_combined_status")
          => Len(workflow_runs) = 0
    /\ (cs_pc = "returned" /\ Len(workflow_runs) = 0 /\ commit_statuses.total_count = 0)
          => cs_result = "pending"

(***************************************************************************)
(* Properties of the sandbox tool wrappers                                 *)
(***************************************************************************)
\* C25: when the Docker connection failed in DockerSandbox.__init__, execute
\* returns its ERROR result at once, every tool wrapper returns its "Docker
\* not available" text, containers.run is never invoked, no command runs and
\* the backend holds no container.
C25_UnavailableDockerFailsFast ==
    /\ (sb_pc # "new" /\ ~docker_available)
          => /\ sb_pc \in {"ready", "returned"}
             /\ ~container
             /\ backend = "none"
             /\ sb_pc = "returned" => /\ sb_result = UnavailableResult
                                      /\ sb_result.status = "error"
                                      /\ sb_elapsed = 0
    /\ (wr_pc # "idle" /\ ~wr_docker)
          => /\ wr_pc = "returned"
             /\ wr_report = "docker_not_available"
             /\ wr_containers = 0
             /\ wr_trace = <<>>
             /\ wr_result = NoResult
    /\ (mt_pc = "returned" /\ mt_report = DockerUnavailableReport)
          => mt_executed = <<>>
    /\ (mt_pc = "returned" /\ mt_executed = <<>>)
          => mt_report = DockerUnavailableReport

\* C25 witness: run_tests_on_branch, called with two setup commands while
\* Docker is unreachable, has returned
C25_WrapperReturnedWithoutDocker ==
    /\ wr_pc = "returned"
    /\ wr_fn = "run_tests_on_branch"
    /\ Len(wr_setup) = 2
    /\ ~wr_docker
    /\ wr_report = "docker_not_available"

\* the steps whose failure must stop a chain
GuardCommands == {"clone"} \cup SetupCommandNames

\* the positions of a command in the shell's trace
RanAt(command) == {i \in DOMAIN wr_trace : wr_trace[i].command = command}

\* C27: in every wrapper the clone step and the setup commands run, in the
\* order given, before the primary command: a primary command runs only after
\* the clone (if the wrapper clones) and every setup command have run, and when
\* the shell has run the chain and no command failed, every primary command
\* has run.  Once the clone or a setup command has exited non-zero, no later
\* setup command and no primary command runs, the debug commands of
\* run_command_on_branch included.
C27_SetupRunsBeforeAndGuardsThePrimary ==
    /\ \A j \in DOMAIN wr_trace :
         wr_trace[j].command \in PrimaryCommands
            => /\ wr_fn \in BranchWrappers
                    => \E i \in RanAt("clone") : i < j
               /\ \A s \in DOMAIN wr_setup : \E i \in RanAt(wr_setup[s]) : i < j
    /\ \A s, t \in DOMAIN wr_setup :
         s < t => \A j \in RanAt(wr_setup[t]) : \E i \in RanAt(wr_setup[s]) : i < j
    /\ \A i, j \in DOMAIN wr_trace :
         (i < j /\ wr_trace[i].command \in GuardCommands /\ wr_trace[i].exit_code # 0)
            => wr_trace[j].command \notin SetupCommandNames \cup PrimaryCommands
    /\ (/\ wr_pc = "returned"
        /\ wr_result.origin = "exec_run"
        /\ \A i \in DOMAIN wr_trace : wr_trace[i].exit_code = 0)
          => \A c \in DOMAIN wr_commands : RanAt(wr_commands[c]) # {}

(***************************************************************************)
(* Properties of the text the branch wrappers return                       *)
(***************************************************************************)
\* C26: whatever the command printed and whichever return statement is taken
\* (Docker not available, skipped baseline, report), the text returned by
\* lint_code_on_branch, run_command_on_branch, run_tests_on_branch,
\* run_coverage_on_branch and run_mutation_tests_on_branch does not contain
\* the value of GITHUB_TOKEN.
C26_ReturnedTextHoldsNoToken ==
    (rd_pc = "returned" /\ rd_fn \in TokenWrappers /\ github_token # <<>>)
        => ~Contains(rd_returned, github_token)

\* a report was returned for a run whose stdout and stderr both printed the token
C26_TokenPrintedAndMasked ==
    /\ rd_pc = "returned"
    /\ rd_path = "report"
    /\ github_token # <<>>
    /\ Contains(rd_result.stdout, github_token)
    /\ Contains(rd_result.stderr, github_token)
    /\ Contains(rd_returned, Mask)

(***************************************************************************)
(* Properties of the test and coverage reports                             *)
(***************************************************************************)
\* the gate a function states: the COVERAGE_STATUS line of
\* run_tests_with_coverage, the COVERAGE_GATE line of run_coverage_on_branch,
\* the value returned by check_coverage_gate
StatedGate ==
    IF rp_fn = "run_tests_with_coverage" THEN rp_report.coverage_status
                                         ELSE rp_report.coverage_gate

GateStated ==
    /\ rp_pc = "returned"
    /\ rp_fn \in {"check_coverage_gate", "run_tests_with_coverage", "run_coverage_on_branch"}
    /\ rp_report.kind \in {"report", "gate"}
    /\ rp_coverage # None

\* C28: for every threshold and every measured coverage, the coverage gate of
\* check_coverage_gate, run_tests_with_coverage and run_coverage_on_branch
\* passes exactly when the coverage is at least the threshold: a coverage
\* equal to the threshold passes and one percentage point below it fails.
C28_GatePassesExactlyFromTheThreshold ==
    GateStated =>
        /\ (StatedGate = "PASSED") = (rp_coverage >= min_coverage)
        /\ StatedGate \in {"PASSED", "FAILED"}
        /\ (rp_coverage = min_coverage) => (StatedGate = "PASSED")
        /\ (rp_coverage = min_coverage - 1) => (StatedGate = "FAILED")

\* run_coverage_on_branch measured a coverage equal to a positive threshold
\* and its gate passed
C28_CoverageAtTheThresholdPassed ==
    /\ GateStated
    /\ rp_fn = "run_coverage_on_branch"
    /\ min_coverage > 0
    /\ rp_coverage = min_coverage
    /\ StatedGate = "PASSED"

\* the coverage a report is written from: the function's own search where it
\* has one, else the coverage_percent of the result
MeasuredCoverage ==
    IF rp_fn = "run_coverage_on_branch" THEN rp_coverage ELSE rp_result.coverage_percent

\* C30: in a report, a test count of zero is stated only when the output held
\* a matched count of zero, and a count no pattern matched is not stated as a
\* number; a matched coverage of zero is stated as zero, and a coverage no
\* pattern matched is stated as unknown or left out.
C30_ZeroIsStatedOnlyForAMeasuredZero ==
    (rp_pc = "returned" /\ rp_report.kind = "report") =>
        /\ (rp_report.passed = "0") => (Search("passed", rp_stdout) = 0)
        /\ (rp_report.failed = "0") => (Search("failed", rp_stdout) = 0)
        /\ (rp_report.coverage = "0") => (MeasuredCoverage = 0)
        /\ (rp_fn # "run_tests_on_branch" /\ MeasuredCoverage = 0)
              => (rp_report.coverage = "0")
        /\ (rp_fn # "run_tests_on_branch" /\ MeasuredCoverage = None)
              => (rp_report.coverage \in {"UNKNOWN", "absent"})

(***************************************************************************)
(* Properties of the mutation score                                        *)
(***************************************************************************)
\* a score stated as unknown: no fraction at all
UnknownScore == [num |-> 0, den |-> 0]

\* total - no_coverage of the parsed counts
ScoreDenominator == mt_parsed.total - mt_parsed.no_coverage

\* C29: the score of a mutation report is the score a pattern matched in the
\* output, or killed / (total - no_coverage) * 100 of the parsed counts with a
\* positive denominator; when no score pattern matched and the denominator is
\* not positive the report states an unknown score, never 0.
C29_ScoreIsParsedComputedOrUnknown ==
    (mt_pc = "returned" /\ mt_report.kind = "report") =>
        \/ mt_parsed.score_matched /\ mt_report.score = Score(mt_parsed.score, 1)
        \/ /\ ScoreDenominator > 0
           /\ mt_report.score = Score(mt_parsed.killed * 100, ScoreDenominator)
        \/ mt_report.score = UnknownScore

(***************************************************************************)
(* Further properties of the CI polling loops                              *)
(***************************************************************************)
\* C34: CIMonitor.monitor_pr returns a result with status SUCCESS only if the
\* terminal status it observed was success; an observed cancelled status is
\* returned as a cancelled result, never as success.
C34_MonitorPrSuccessOnlyAfterSuccess ==
    (ci_fn = "monitor_pr" /\ ci_pc = "returned" /\ polled # <<>>) =>
        /\ (ci_result.outcome = "success") => (LastPolled = "success")
        /\ (LastPolled = "cancelled") => (ci_result.outcome = "cancelled")

\* C35: in wait_for_ci_completion and CIMonitor.monitor_pr a status query that
\* raises does not end the call: the loop polls again, and the call ends only
\* with the outcome of a terminal status or with the timeout outcome.
C35_RaisingQueryDoesNotEndTheCall ==
    (ci_fn \in {"wait_for_ci_completion", "monitor_pr"} /\ polled # <<>>) =>
        /\ ci_pc # "raised"
        /\ (LastPolled \in QueryRaises) =>
              \/ ci_pc = "polling"
              \/ ci_pc = "returned" /\ ci_result.outcome \in {"TIMEOUT", "unknown"}
        /\ (ci_pc = "returned") =>
              ci_result.outcome \in {"SUCCESS", "FAILURE", "CANCELLED", "TIMEOUT",
                                     "success", "failure", "cancelled", "unknown"}

(***************************************************************************)
(* Further properties of get_ci_status                                     *)
(***************************************************************************)
\* the values of the enumeration CIStatus
CIStatusValues ==
    {"pending", "queued", "in_progress", "success", "failure", "cancelled", "unknown"}

\* C36: every value get_ci_status returns is a value of CIStatus, for every
\* list of workflow runs and every combined status of the commit, a combined
\* state of "error" included.
C36_ReturnsAValueOfCIStatus ==
    (cs_pc = "returned") => (cs_result \in CIStatusValues)

(***************************************************************************)
(* Properties of DockerSandbox._parse_test_output                          *)
(***************************************************************************)
\* the parts of the output that are a framework's summary
SummaryParts == {i \in DOMAIN ps_lines : ps_lines[i].kind \in Frameworks}

\* the output is a pytest summary and the TOTAL line of a coverage table
PytestWithCoverage ==
    /\ Len(ps_lines) = 2
    /\ \E i, j \in DOMAIN ps_lines :
         /\ ps_lines[i].kind = "pytest"
         /\ ps_lines[j].kind = "TOTAL"

\* C31: for Python test output with a summary 'P passed, F failed' and a
\* coverage table line 'TOTAL <statements> <missed> C%' the parser yields
\* tests_passed = P, tests_failed = F and coverage_percent = C.
C31_PytestSummaryAndTotalAreParsed ==
    (ps_pc = "parsed" /\ PytestWithCoverage) =>
        \A i, j \in DOMAIN ps_lines :
            (ps_lines[i].kind = "pytest" /\ ps_lines[j].kind = "TOTAL") =>
                /\ ps_parsed.tests_passed = ps_lines[i].p
                /\ ps_parsed.tests_failed = ps_lines[i].f
                /\ ps_parsed.coverage_percent = ps_lines[j].p

\* a pytest summary with passed and failed tests and a positive coverage were
\* parsed
C31_PassedFailedAndCoverageParsed ==
    /\ ps_pc = "parsed"
    /\ PytestWithCoverage
    /\ ps_parsed.tests_passed > 0
    /\ ps_parsed.tests_failed > 0
    /\ ps_parsed.coverage_percent > 0

\* C39: for output with the summary of exactly one supported framework
\* reporting P passed and F failed, the parser yields tests_passed = P and
\* tests_failed = F: no framework's line is counted a second time by another
\* framework's pattern.
C39_OneFrameworkIsCountedOnce ==
    (ps_pc = "parsed" /\ Cardinality(SummaryParts) = 1) =>
        \A i \in SummaryParts :
            /\ ps_parsed.tests_passed = ps_lines[i].p
            /\ ps_parsed.tests_failed = ps_lines[i].f

(***************************************************************************)
(* Properties of check_all_quality_gates                                   *)
(***************************************************************************)
\* the value of a key of the returned dict
GateValue(key) == (CHOOSE i \in DOMAIN gates : gates[i].key = key)

\* the criteria that failed, in the order of the dict
FailedCriteria ==
    (IF ~qg_args.tests_passed THEN <<"tests_passed">> ELSE <<>>)
    \o (IF qg_args.coverage < qg_args.coverage_threshold THEN <<"coverage_gate">> ELSE <<>>)
    \o (IF qg_args.mutation_score < qg_args.mutation_threshold THEN <<"mutation_gate">>
                                                                ELSE <<>>)

\* C40, first half: all_passed is true exactly when the tests passed, the
\* coverage is at least its threshold and the mutation score is at least its
\* threshold.
C40_ApprovesIffAllThreeCriteriaHold ==
    (qg_pc = "returned") =>
        (gates[GateValue("all_passed")].value =
            (/\ qg_args.tests_passed
             /\ qg_args.coverage >= qg_args.coverage_threshold
             /\ qg_args.mutation_score >= qg_args.mutation_threshold))

\* C40: check_all_quality_gates approves if and only if the three criteria
\* hold, and the failed-gate list of its summary consists of exactly those of
\* the three criteria that failed.
C40_SummaryListsExactlyTheFailedCriteria ==
    (qg_pc = "returned") =>
        /\ C40_ApprovesIffAllThreeCriteriaHold
        /\ gates[GateValue("summary")].failed = FailedCriteria

\* C38: a sandbox result with status ERROR that a Docker exception produced is
\* never returned by run_tests_on_branch, lint_code_on_branch or
\* run_coverage_on_branch under the status line of a failure of the code
\* (failed tests, lint issues found, coverage failed), which asks for a fix
C38_ErrorResultIsNotReportedAsCodeFailure ==
    (/\ wr_pc = "returned"
     /\ wr_fn \in {"run_tests_on_branch", "lint_code_on_branch", "run_coverage_on_branch"}
     /\ wr_result.status = "error"
     /\ wr_result.origin \in {"container_error", "sandbox_error"})
        => wr_report \notin {"TEST_STATUS: FAILED", "LINT_STATUS: ISSUES_FOUND",
                             "COVERAGE_STATUS: FAILED"}

\* C37: when the text an agent returned holds the failure marker of the role
\* (MISSION_STATUS: FAILED, VERIFICATION_STATUS: FAIL, DEVELOPMENT_BLOCKED),
\* the state parsed from it is not the success state (success, qa_passed,
\* ready_for_pr), whatever else the text holds
C37_FailureMarkerNeverParsesAsSuccess ==
    mk_pc = "returned" =>
        /\ (mk_fn = "_parse_result" /\ Contains(mk_text, MissionFailed))
              => ~mk_out.success
        /\ (mk_fn = "on_qa_complete" /\ Contains(mk_text, VerificationFail))
              => ~mk_out.qa_passed
        /\ (mk_fn = "on_developer_complete" /\ Contains(mk_text, DevelopmentBlocked))
              => ~mk_out.ready_for_pr

\* C33: a run of the command line that got past its arguments ends with exit
\* code 1 exactly when validate_environment returned errors or the result is a
\* mission failure (status failed, error or unknown); with validation errors
\* nothing was run, --dry-run or not; a result of complete, idle or dry_run
\* ends with exit code 0
C33_ExitCodeFollowsValidationAndResult ==
    cli_pc = "exited" =>
        /\ cli_exit = 1 <=> (\/ cli_errors # <<>>
                             \/ cli_result.status \in {"failed", "error", "unknown"})
        /\ cli_errors # <<>> => (agent_runs = 0 /\ cli_result = NoCliResult)
        /\ cli_result.status \in {"complete", "idle", "dry_run"} => cli_exit = 0

\* a dry run whose environment is not valid exited with 1 and ran nothing
C33_DryRunWithInvalidEnvironmentExitsOne ==
    /\ cli_pc = "exited"
    /\ cli_args.dry_run
    /\ cli_errors # <<>>
    /\ cli_exit = 1
    /\ agent_runs = 0

\* a dry run whose environment is valid exited with 0
C33_DryRunExitsZero ==
    /\ cli_pc = "exited"
    /\ cli_result.status = "dry_run"
    /\ cli_exit = 0

\* C32: under every interleaving of the callers' first calls no call ends with
\* an exception, all callers hold the same GitHubClient, the client a caller
\* holds after GitHubClient() returned is initialised with its cache in place,
\* and two callers that asked for the same repository name got the same handle
C32_OneInitialisedClientAndOneHandlePerName ==
    /\ \A c \in Callers : gc_raised[c] = "none"
    /\ \A c, d \in Callers :
          (gc_self[c] # None /\ gc_self[d] # None) => gc_self[c] = gc_self[d]
    /\ \A c \in Callers :
          gc_pc[c] \in {"has_client", "repo_fetch", "repo_return", "done"}
             => /\ gc_objects[gc_self[c]].initialized = "true"
                /\ gc_objects[gc_self[c]].has_cache
    /\ \A c, d \in Callers :
          (gc_pc[c] = "done" /\ gc_pc[d] = "done" /\ gc_name[c] = gc_name[d])
             => gc_got[c] = gc_got[d]

====
